---- MODULE Spec2Model ----
(***************************************************************************)
(* The concurrency demos of the repository, as state machines.             *)
(*                                                                         *)
(* Spec: the executor demos.  Each demo block (a `with ...Executor(...) as *)
(* executor:` block or the explicit executor.shutdown() blocks) is a small *)
(* main-thread program that calls into concurrent.futures.  The main       *)
(* thread's program is the sequence of calls the source makes; the pool it *)
(* calls into is modelled after the CPython 3.11 implementation those      *)
(* calls run (Future states PENDING, RUNNING, CANCELLED,                   *)
(* CANCELLED_AND_NOTIFIED, FINISHED; a FIFO work queue; worker threads     *)
(* spawned on submit up to max_workers; a None sentinel put by             *)
(* shutdown()).                                                            *)
(*                                                                         *)
(* SyncSpec: the thread synchronization demos (Lock, Queue, RLock,         *)
(* Condition, Barrier, Semaphore, BoundedSemaphore).                       *)
(*                                                                         *)
(* AsyncSpec: the asyncio demos, on one event loop.                        *)
(*                                                                         *)
(* In Spec and SyncSpec time is not modelled: a time.sleep() is a point    *)
(* where any other thread may run, so every interleaving is covered.       *)
(***************************************************************************)
EXTENDS Integers, Sequences, FiniteSets, TLC

VARIABLES
    demo,            \* which demo block runs
    max_workers,     \* the executor's max_workers
    ntasks,          \* number of futures the demo's program submits
    wait_flag,       \* the wait argument the generic program passes to shutdown
    pc,              \* main thread: index of the next call of its program
    mphase,          \* main thread: "" | "invoke" (callback to run) | "join"
    queue,           \* executor._work_queue (task ids, None as a sentinel)
    pending,         \* process pool: work items not yet handed to the call queue
    call_queue,      \* process pool: call items waiting to be pickled by the feeder
    fstate,          \* Future._state per task ("NONE" before submit)
    fvalue,          \* Future._result / Future._exception per task
    done_callbacks,  \* len(Future._done_callbacks) per task
    cb_calls,        \* how often the done callback of a task's future ran
    cb_early,        \* futures whose callback ran before a terminal state
    num_threads,     \* len(executor._threads): worker threads started
    idle,            \* worker threads blocked in work_queue.get()
    exited,          \* worker threads that returned from _worker
    crashed,         \* worker threads ended by an exception that escaped
    holders,         \* per task: the phases ("got" | "running" | "callbacks") of
                     \* the worker threads that hold its work item
    idle_semaphore,  \* executor._idle_semaphore
    shutdown,        \* executor._shutdown
    started,         \* per task: how often its function body was started
    cancelled,       \* what future.cancel() returned ("unset" before the call)
    cancel_queued,   \* whether the work item was still queued right after cancel()
    yielded,         \* outcomes future.result() gave the main thread, in order
    consumed,        \* futures as_completed has handed to the main thread
    raised,          \* exception propagating out of the main program ("" if none)
    shutdown_returned, \* whether a shutdown() call of the program has returned
    \* the synchronization demos (01_thread_synchronization.py)
    sdemo,           \* which synchronization demo runs ("off": an executor demo)
    main_pc,         \* main thread: index of the next statement of its program
    tstate,          \* per thread: where it is in its target function
    lock,            \* threading.Lock(): 0 when free, else the thread that holds it
    counter,         \* the shared counter
    current,         \* increment_counter's local `current`, per thread
    loops,           \* iterations of the thread's for loop that are through
    printed,         \* the counter values the threads printed, in order
    q,               \* queue.Queue(): its items, oldest first
    consumed_items,  \* the items the consumer printed as consumed, in order
    rlock,           \* threading.RLock(): its owner (0: none) and recursion count
    condition,       \* threading.Condition(): the owner of its lock (0: none),
                     \* the threads blocked in wait() and those notified
    data_ready,      \* the module global data_ready ("unbound" until assigned)
    wait_result,     \* what condition.wait() returned, per thread
    barrier,         \* threading.Barrier(3): its _state and _count
    arrived,         \* the threads that have called barrier.wait(), in order
    semaphore,       \* threading.Semaphore(2): its _value
    bounded_semaphore, \* threading.BoundedSemaphore(2): its _value
    event,           \* threading.Event(): its flag
    dlog,            \* what the daemon demo printed, in order
    pipe,            \* multiprocessing.Pipe(): the messages in flight, the count
                     \* of messages sent, and the processes that hold an open
                     \* handle of the sending end (0: the parent process)
    received,        \* the messages the receiver process printed, in order
    \* the asyncio demos (02_asyncio_example.py)
    ademo,           \* which asyncio demo runs ("off": none)
    now,             \* the event loop's clock, in tenths of a second
    ready,           \* loop._ready: the handles to run, oldest first
    timers,          \* loop._scheduled: the call_later handles, in call order
    delays,          \* the delay each coroutine sleeps, in tenths of a second
    cstate,          \* per task: "none" | "created" | "starting" | "sleeping" |
                     \* "resumed" | "finished"
    cresult,         \* per task: the value its coroutine returned
    amain,           \* where the demo's own coroutine is
    nfinished,       \* gather, TaskGroup: the count of finished children
    outer,           \* gather: the result set on its outer future
    results,         \* the demo coroutine's local `results`
    alog,            \* what the coroutines printed, in order
    running          \* the handles the loop is in the middle of running

vars == <<demo, max_workers, ntasks, wait_flag, pc, mphase, queue, pending,
          call_queue, fstate,
          fvalue, done_callbacks, cb_calls, cb_early, num_threads, idle, exited,
          crashed, holders, idle_semaphore, shutdown, started, cancelled,
          cancel_queued,
          yielded, consumed, raised, shutdown_returned,
          sdemo, main_pc, tstate, lock, counter, current, loops, printed,
          q, consumed_items, rlock, condition, data_ready, wait_result,
          barrier, arrived, semaphore, bounded_semaphore, event, dlog,
          pipe, received,
          ademo, now, ready, timers, delays, cstate, cresult, amain, nfinished,
          outer, results, alog, running>>

\* the state of the asyncio demos
asyncVars ==
    <<ademo, now, ready, timers, delays, cstate, cresult, amain, nfinished,
      outer, results, alog, running>>

\* the state of the executor demos
execVars ==
    <<demo, max_workers, ntasks, wait_flag, pc, mphase, queue, pending,
      call_queue, fstate, fvalue, done_callbacks, cb_calls, cb_early,
      num_threads, idle, exited, crashed, holders, idle_semaphore, shutdown,
      started, cancelled, cancel_queued, yielded, consumed, raised,
      shutdown_returned>>

\* the state of the synchronization demos, primitive by primitive
counterVars == <<lock, counter, current, loops, printed>>

queueVars == <<q, consumed_items>>

condVars == <<condition, data_ready, wait_result>>

barrierVars == <<barrier, arrived>>

semVars == <<semaphore, bounded_semaphore>>

daemonVars == <<event, dlog>>

pipeVars == <<pipe, received>>

primVars ==
    <<counterVars, queueVars, rlock, condVars, barrierVars, semVars, daemonVars,
      pipeVars>>

syncVars == <<sdemo, main_pc, tstate, primVars>>

\* what the threads of one demo leave alone
notCounter == 
    <<execVars, asyncVars, sdemo, main_pc, daemonVars, pipeVars,
      queueVars, rlock, condVars, barrierVars, semVars>>

notQueue == 
    <<execVars, asyncVars, sdemo, main_pc, daemonVars, pipeVars,
      counterVars, rlock, condVars, barrierVars, semVars>>

notRLock == 
    <<execVars, asyncVars, sdemo, main_pc, daemonVars, pipeVars,
      counterVars, queueVars, condVars, barrierVars, semVars>>

notCond == 
    <<execVars, asyncVars, sdemo, main_pc, daemonVars, pipeVars,
      counterVars, queueVars, rlock, barrierVars, semVars>>

notBarrier == 
    <<execVars, asyncVars, sdemo, main_pc, daemonVars, pipeVars,
      counterVars, queueVars, rlock, condVars, semVars>>

notDaemon ==
    <<execVars, asyncVars, sdemo, counterVars, queueVars, rlock, condVars, barrierVars,
      semVars, pipeVars>>

notPipe ==
    <<execVars, asyncVars, sdemo, counterVars, queueVars, rlock, condVars, barrierVars,
      semVars, daemonVars>>

notSem == 
    <<execVars, asyncVars, sdemo, main_pc, daemonVars, pipeVars,
      counterVars, queueVars, rlock, condVars, barrierVars>>

\* Bounds of the generic program (N submissions to a pool of size K).
MaxTasks == 3
MaxWorkers == 2

\* Bound of the barrier and reentrant-lock demos: up to this many threads
\* more than the demo starts run the same target function.
ExtraThreads == 1

\* A work item of the queue: a task's _WorkItem, or the None that shutdown() puts.
WorkItem(t) == [none |-> FALSE, t |-> t]

NoneItem == [none |-> TRUE, t |-> 0]

ThreadDemos ==
    {"results", "basic", "exception", "cancel", "callbacks",
     "shutdown_wait", "shutdown_nowait", "generic"}

ProcessDemos == {"map", "proc_submit", "initializer"}

Demos == ThreadDemos \cup ProcessDemos

\* thread-backed or process-backed executor
Mode(d) == IF d \in ProcessDemos THEN "process" ELSE "thread"

\* max_workers of each demo's executor
DemoWorkers(d) ==
    CASE d \in {"shutdown_wait", "shutdown_nowait"} -> 2
      [] d = "proc_submit" -> 4
      [] OTHER -> 3

\* number of submissions of each demo's program
DemoTasks(d) ==
    CASE d \in {"results", "exception", "callbacks"} -> 5
      [] d = "proc_submit" -> 10
      [] OTHER -> 3

\* The function a task runs and its argument.  `local` says the function is
\* defined inside another function's body (every task function of the demos is).
TaskFn(d, t) ==
    CASE d = "results"   -> [fn |-> "worker_with_result", arg |-> t - 1, local |-> TRUE]
      [] d = "basic"     -> [fn |-> "worker", arg |-> t, local |-> TRUE]
      [] d = "exception" -> [fn |-> "task_with_exception", arg |-> t - 1, local |-> TRUE]
      [] d = "cancel"    -> [fn |-> "long_running_task", arg |-> t, local |-> TRUE]
      [] d = "callbacks" -> [fn |-> "task", arg |-> t - 1, local |-> TRUE]
      [] d = "map"       -> [fn |-> "worker", arg |-> t, local |-> TRUE]
      [] d = "proc_submit" -> [fn |-> "compute_intensive_task", arg |-> t, local |-> TRUE]
      [] d = "initializer" -> [fn |-> "process_with_global", arg |-> 0, local |-> TRUE]
      [] OTHER           -> [fn |-> "sleep", arg |-> 1, local |-> FALSE]

Result(v) == [kind |-> "result", val |-> v, exc |-> ""]

Exception(e) == [kind |-> "exception", val |-> 0, exc |-> e]

NoValue == [kind |-> "none", val |-> 0, exc |-> ""]

\* initargs=("shared data",): what initializer stores in the module global
\* global_data of each worker process
ModuleGlobal == "shared data"

\* global_data = None in the demo function: the variable of the enclosing
\* scope, which the name global_data in process_with_global refers to
EnclosingLocal == "None"

\* for i in range(10): the steps of long_running_task
Steps == 10

\* faulty variant: a thread counts as alive only while it waits for work
ThreadIsAliveWhileIdle(h) == h = "idle"

\* threading.current_thread().is_alive() in a pool thread whose position
\* in _worker is h: a thread is alive from its start until its run() has
\* returned, so wherever it is between taking a work item and announcing
\* itself idle again
ThreadIsAlive(h) == h \in {"got", "running", "callbacks"}

\* return None (no task is named 0)
ReturnsNone == Result(0)

\* long_running_task(name) from its i-th step on: after each sleep the test
\* of is_alive() (alive: what it gives), then "step i" is printed, or "was
\* cancelled" and None is returned; after the last step f"Result from task
\* {name}" is returned
RECURSIVE LongRunningTaskFrom(_, _, _)
LongRunningTaskFrom(name, alive, i) ==
    IF i = Steps
    THEN [steps |-> i, was_cancelled |-> FALSE, ret |-> Result(name)]
    ELSE IF alive
         THEN LongRunningTaskFrom(name, alive, i + 1)
         ELSE [steps |-> i, was_cancelled |-> TRUE, ret |-> ReturnsNone]

LongRunningTask(name, alive) == LongRunningTaskFrom(name, alive, 0)

\* the task function f called in a thread for which is_alive() gives alive
Call(f, alive) == [fn |-> f.fn, arg |-> f.arg, local |-> f.local, alive |-> alive]

\* What running the task's function produces: a return value or a raised exception.
Outcome(f) ==
    CASE f.fn = "task_with_exception" ->
            IF f.arg = 2 THEN Exception("ValueError") ELSE Result(f.arg)
      [] f.fn \in {"worker_with_result", "task"} -> Result(f.arg * f.arg)
      [] f.fn \in {"worker", "compute_intensive_task"} -> Result(f.arg)
      [] f.fn = "long_running_task" -> LongRunningTask(f.arg, f.alive).ret
      [] f.fn = "process_with_global" -> Result(EnclosingLocal)
      [] OTHER -> Result(0)

\* pickle refuses a function that is not importable by its qualified name
Picklable(f) == ~f.local

Instr(op, t, wait, catch) == [op |-> op, t |-> t, wait |-> wait, catch |-> catch]

\* The main thread's program: the calls the demo makes, in order, its loops
\* unrolled.  A shutdown with catch = "with" is the exit of a `with` block
\* (reached by exceptions too).
Program(d, n, w) ==
    LET Submits == [t \in 1..n |-> Instr("submit", t, FALSE, "")]
        SubmitsWithCallback ==
            [i \in 1..(2 * n) |->
                IF i % 2 = 1 THEN Instr("submit", (i + 1) \div 2, FALSE, "")
                ELSE Instr("add_done_callback", i \div 2, FALSE, "")]
        AsCompleted(catch) == [t \in 1..n |-> Instr("as_completed", 0, FALSE, catch)]
        MapResults == [t \in 1..n |-> Instr("map_result", t, FALSE, "")]
        Results == [t \in 1..n |-> Instr("result", t, FALSE, "")]
        Exit == <<Instr("shutdown", 0, TRUE, "with")>>
    IN CASE d \in {"results", "exception"} -> Submits \o AsCompleted("Exception") \o Exit
         [] d \in {"basic", "initializer"} -> Submits \o AsCompleted("") \o Exit
         [] d = "cancel" ->
              Submits \o <<Instr("cancel", 2, FALSE, ""),
                           Instr("result", 1, FALSE, "CancelledError"),
                           Instr("result", 3, FALSE, "CancelledError")>> \o Exit
         [] d = "callbacks" -> SubmitsWithCallback \o <<Instr("wait", 0, FALSE, "")>> \o Exit
         [] d = "shutdown_wait" -> Submits \o <<Instr("shutdown", 0, TRUE, "")>>
         [] d = "shutdown_nowait" -> Submits \o <<Instr("shutdown", 0, FALSE, "")>>
         [] d = "map" -> Submits \o MapResults \o Exit
         [] d = "proc_submit" -> Submits \o Results \o Exit
         [] OTHER -> Submits \o <<Instr("shutdown", 0, w, "")>>
                        \o <<Instr("submit", n + 1, FALSE, "")>>

Prog == Program(demo, ntasks, wait_flag)

Tasks == DOMAIN fstate

Terminal(s) == s \in {"CANCELLED", "CANCELLED_AND_NOTIFIED", "FINISHED"}

\* no asyncio demo runs
AsyncOff ==
    /\ ademo = "off"
    /\ now = 0
    /\ ready = <<>>
    /\ timers = <<>>
    /\ delays = <<>>
    /\ cstate = <<>>
    /\ cresult = <<>>
    /\ amain = "done"
    /\ nfinished = 0
    /\ outer = <<>>
    /\ results = <<>>
    /\ alog = <<>>
    /\ running = {}

\* no synchronization demo runs
SyncOff ==
    /\ sdemo = "off"
    /\ main_pc = 1
    /\ tstate = <<>>
    /\ lock = 0
    /\ counter = 0
    /\ current = <<>>
    /\ loops = <<>>
    /\ printed = <<>>
    /\ wait_result = <<>>
    /\ q = <<>>
    /\ consumed_items = <<>>
    /\ rlock = [owner |-> 0, count |-> 0]
    /\ condition = [owner |-> 0, waiters |-> {}, notified |-> {}]
    /\ data_ready = "unbound"
    /\ barrier = [state |-> 0, count |-> 0]
    /\ arrived = <<>>
    /\ semaphore = 2
    /\ bounded_semaphore = 2
    /\ event = FALSE
    /\ dlog = <<>>
    /\ pipe = [buf |-> <<>>, sent |-> 0, holders |-> {0}]
    /\ received = <<>>

Init ==
    /\ demo \in Demos
    /\ IF demo = "generic"
         THEN /\ max_workers \in 1..MaxWorkers
              /\ ntasks \in 1..MaxTasks
              /\ wait_flag \in BOOLEAN
         ELSE /\ max_workers = DemoWorkers(demo)
              /\ ntasks = DemoTasks(demo)
              /\ wait_flag = FALSE
    /\ pc = 1
    /\ mphase = ""
    /\ queue = <<>>
    /\ pending = <<>>
    /\ call_queue = <<>>
    /\ fstate = [t \in 1..(ntasks + (IF demo = "generic" THEN 1 ELSE 0)) |-> "NONE"]
    /\ fvalue = [t \in DOMAIN fstate |-> NoValue]
    /\ done_callbacks = [t \in DOMAIN fstate |-> 0]
    /\ cb_calls = [t \in DOMAIN fstate |-> 0]
    /\ cb_early = {}
    /\ num_threads = 0
    /\ idle = 0
    /\ exited = 0
    /\ crashed = 0
    /\ holders = [t \in DOMAIN fstate |-> <<>>]
    /\ idle_semaphore = 0
    /\ shutdown = FALSE
    /\ started = [t \in DOMAIN fstate |-> 0]
    /\ cancelled = "unset"
    /\ cancel_queued = FALSE
    /\ yielded = <<>>
    /\ consumed = {}
    /\ raised = ""
    /\ shutdown_returned = FALSE
    /\ SyncOff
    /\ AsyncOff

workerVars == <<num_threads, idle, exited, crashed, holders>>

\* what the main thread's calls into a thread pool leave alone
cfgVars ==
    <<demo, max_workers, ntasks, wait_flag, call_queue, consumed, syncVars, asyncVars>>

\* the instruction the main thread is at
Cur == Prog[pc]

AtOp(op) == pc <= Len(Prog) /\ mphase = "" /\ Cur.op = op

\* where an exception that the program does not catch takes the main thread:
\* to the exit of the enclosing `with` block, or out of the program
UnwindTo(p) ==
    IF \E i \in (p + 1)..Len(Prog) : Prog[i].op = "shutdown" /\ Prog[i].catch = "with"
    THEN CHOOSE i \in (p + 1)..Len(Prog) : Prog[i].op = "shutdown" /\ Prog[i].catch = "with"
    ELSE Len(Prog) + 1

\* `except <catch>:` catches exception exc
Caught(exc, catch) == catch = "Exception" \/ catch = exc

\* faulty variant: a thread is started for every submit, whatever max_workers is
AdjustThreadCountNoMax(sem, nthreads, max) ==
    IF sem > 0 THEN [sem |-> sem - 1, spawn |-> FALSE]
    ELSE [sem |-> sem, spawn |-> TRUE]

\* faulty variant: no worker thread is ever started
AdjustThreadCountNoSpawn(sem, nthreads, max) == [sem |-> sem, spawn |-> FALSE]

\* ThreadPoolExecutor._adjust_thread_count: no new thread if an idle one is
\* announced by the semaphore, or if max_workers threads exist already
AdjustThreadCount(sem, nthreads, max) ==
    IF sem > 0 THEN [sem |-> sem - 1, spawn |-> FALSE]
    ELSE [sem |-> sem, spawn |-> nthreads < max]

\* faulty variant: submit does not look at the shutdown flag
SubmitRefusedNever(shut) == FALSE

\* submit: `if self._shutdown: raise RuntimeError('cannot schedule new futures
\* after shutdown')`, under the shutdown lock
SubmitRefused(shut) == shut

\* executor.submit(fn, *args)
MainSubmit ==
    /\ AtOp("submit")
    /\ IF SubmitRefused(shutdown)
       THEN /\ raised' = "RuntimeError"
            /\ pc' = UnwindTo(pc)
            /\ UNCHANGED <<fstate, queue, pending, idle_semaphore, num_threads, idle>>
       ELSE LET t == Cur.t
                a == AdjustThreadCount(idle_semaphore, num_threads, max_workers)
            IN /\ fstate' = [fstate EXCEPT ![t] = "PENDING"]
               /\ IF Mode(demo) = "thread"
                  THEN queue' = Append(queue, WorkItem(t)) /\ UNCHANGED pending
                  ELSE pending' = Append(pending, WorkItem(t)) /\ UNCHANGED queue
               /\ idle_semaphore' = a.sem
               /\ num_threads' = IF a.spawn THEN num_threads + 1 ELSE num_threads
               /\ idle' = IF a.spawn THEN idle + 1 ELSE idle
               /\ pc' = pc + 1
               /\ UNCHANGED raised
    /\ UNCHANGED <<cfgVars, mphase, fvalue, done_callbacks, cb_calls, cb_early,
                   exited, crashed, holders, shutdown, started, cancelled,
                   cancel_queued, yielded, shutdown_returned>>

\* what future.result() gives once the future is done
FutureResult(t) ==
    IF fstate[t] \in {"CANCELLED", "CANCELLED_AND_NOTIFIED"}
    THEN Exception("CancelledError")
    ELSE fvalue[t]

\* the main thread receives future t's outcome: a value is kept, an exception
\* is handled by the enclosing except clause or propagates
Receive(t, catch) ==
    LET out == FutureResult(t)
    IN /\ yielded' = Append(yielded, [t |-> t, out |-> out])
       /\ IF out.kind = "result" \/ Caught(out.exc, catch)
          THEN pc' = pc + 1 /\ UNCHANGED raised
          ELSE pc' = UnwindTo(pc) /\ raised' = out.exc

\* future.result(): blocks until the future is done
MainResult ==
    /\ AtOp("result")
    /\ Terminal(fstate[Cur.t])
    /\ Receive(Cur.t, Cur.catch)
    /\ UNCHANGED <<cfgVars, mphase, queue, pending, fstate, fvalue, done_callbacks,
                   cb_calls, cb_early, workerVars, idle_semaphore, shutdown,
                   started, cancelled, cancel_queued, shutdown_returned>>

\* as_completed() and wait() take a future for finished once it is FINISHED or
\* its cancellation has been notified by a worker
Finished(s) == s \in {"CANCELLED_AND_NOTIFIED", "FINISHED"}

\* one round of `for future in as_completed(futures): future.result()`: the
\* generator hands over a finished future it has not handed over yet, and an
\* exception of result() is handled by the except clause or propagates
MainAsCompleted ==
    /\ AtOp("as_completed")
    /\ \E t \in Tasks \ consumed :
          /\ Finished(fstate[t])
          /\ consumed' = consumed \cup {t}
          /\ IF FutureResult(t).kind = "result" \/ Caught(FutureResult(t).exc, Cur.catch)
             THEN pc' = pc + 1 /\ UNCHANGED raised
             ELSE pc' = UnwindTo(pc) /\ raised' = FutureResult(t).exc
    /\ UNCHANGED <<syncVars, asyncVars, demo, max_workers, ntasks, wait_flag, call_queue, mphase, queue,
                   pending, fstate, fvalue, done_callbacks, cb_calls, cb_early,
                   workerVars, idle_semaphore, shutdown, started,
                   cancelled, cancel_queued, yielded, shutdown_returned>>

\* faulty variant: cancel() cancels whatever the state of the future is
FutureCancelAnyState(s) == [state |-> "CANCELLED", ok |-> TRUE]

\* Future.cancel() on a state: the new state and the value returned
FutureCancel(s) ==
    CASE s \in {"RUNNING", "FINISHED"} -> [state |-> s, ok |-> FALSE]
      [] s \in {"CANCELLED", "CANCELLED_AND_NOTIFIED"} -> [state |-> s, ok |-> TRUE]
      [] OTHER -> [state |-> "CANCELLED", ok |-> TRUE]

\* one round of `for result in executor.map(...)`: the next future's result in
\* input order; when it raises, the iterator cancels the futures left
MainMapResult ==
    /\ AtOp("map_result")
    /\ Terminal(fstate[Cur.t])
    /\ Receive(Cur.t, Cur.catch)
    /\ fstate' = IF FutureResult(Cur.t).kind = "result" THEN fstate
                 ELSE [t \in Tasks |-> IF t > Cur.t THEN FutureCancel(fstate[t]).state
                                       ELSE fstate[t]]
    /\ UNCHANGED <<cfgVars, mphase, queue, pending, fvalue, done_callbacks,
                   cb_calls, cb_early, workerVars, idle_semaphore, shutdown,
                   started, cancelled, cancel_queued, shutdown_returned>>

InQueue(t) == \E i \in DOMAIN queue : queue[i] = WorkItem(t)

\* future.cancel(), and the done callbacks it runs when it cancels
MainCancel ==
    /\ AtOp("cancel")
    /\ LET t == Cur.t
           c == FutureCancel(fstate[t])
       IN /\ fstate' = [fstate EXCEPT ![t] = c.state]
          /\ cancelled' = IF c.ok THEN "True" ELSE "False"
          /\ cancel_queued' = (c.ok /\ InQueue(t))
          /\ cb_calls' = IF c.state # fstate[t]
                         THEN [cb_calls EXCEPT ![t] = @ + done_callbacks[t]]
                         ELSE cb_calls
    /\ pc' = pc + 1
    /\ UNCHANGED <<cfgVars, mphase, queue, pending, fvalue, done_callbacks, cb_early,
                   workerVars, idle_semaphore, shutdown, started,
                   yielded, raised, shutdown_returned>>

\* faulty variant: a running future is taken for a done one
IsDoneOrRunning(s) == s \in {"RUNNING", "CANCELLED", "CANCELLED_AND_NOTIFIED", "FINISHED"}

\* the state test of add_done_callback: the future is done
IsDone(s) == s \in {"CANCELLED", "CANCELLED_AND_NOTIFIED", "FINISHED"}

\* Future.add_done_callback(fn), the part under the future's lock: the callback
\* is queued on a future that is not done; on a done one the caller runs it next
MainAddDoneCallback ==
    /\ AtOp("add_done_callback")
    /\ IF IsDone(fstate[Cur.t])
       THEN mphase' = "invoke" /\ UNCHANGED <<done_callbacks, pc>>
       ELSE /\ done_callbacks' = [done_callbacks EXCEPT ![Cur.t] = @ + 1]
            /\ pc' = pc + 1
            /\ UNCHANGED mphase
    /\ UNCHANGED <<cfgVars, queue, pending, fstate, fvalue, cb_calls, cb_early,
                   workerVars, idle_semaphore, shutdown, started,
                   cancelled, cancel_queued, yielded, raised, shutdown_returned>>

\* add_done_callback on a done future: fn(self) on the registering thread
MainInvokeCallback ==
    /\ mphase = "invoke"
    /\ cb_calls' = [cb_calls EXCEPT ![Cur.t] = @ + 1]
    /\ cb_early' = IF Terminal(fstate[Cur.t]) THEN cb_early ELSE cb_early \cup {Cur.t}
    /\ mphase' = ""
    /\ pc' = pc + 1
    /\ UNCHANGED <<cfgVars, queue, pending, fstate, fvalue, done_callbacks,
                   workerVars, idle_semaphore, shutdown, started,
                   cancelled, cancel_queued, yielded, raised, shutdown_returned>>

\* concurrent.futures.wait(futures): blocks until all are done
MainWait ==
    /\ AtOp("wait")
    /\ \A t \in Tasks : Finished(fstate[t])
    /\ pc' = pc + 1
    /\ UNCHANGED <<cfgVars, mphase, queue, pending, fstate, fvalue, done_callbacks,
                   cb_calls, cb_early, workerVars, idle_semaphore, shutdown,
                   started, cancelled, cancel_queued, yielded, raised,
                   shutdown_returned>>

\* executor.shutdown(wait): the flag and the wake-up None, under the shutdown
\* lock; with wait the caller then joins the worker threads
MainShutdown ==
    /\ AtOp("shutdown")
    /\ shutdown' = TRUE
    /\ IF Mode(demo) = "thread"
       THEN queue' = Append(queue, NoneItem) /\ UNCHANGED pending
       ELSE pending' = Append(pending, NoneItem) /\ UNCHANGED queue
    /\ IF Cur.wait
       THEN mphase' = "join" /\ UNCHANGED <<pc, shutdown_returned>>
       ELSE mphase' = "" /\ pc' = pc + 1 /\ shutdown_returned' = TRUE
    /\ UNCHANGED <<cfgVars, fstate, fvalue, done_callbacks, cb_calls, cb_early,
                   workerVars, idle_semaphore, started, cancelled,
                   cancel_queued, yielded, raised>>

\* faulty variant: shutdown does not join the worker threads
AllJoinedNoWait(nthreads, nexited, ncrashed) == TRUE

\* faulty variant: the last worker thread is not joined
AllJoinedButOne(nthreads, nexited, ncrashed) == nexited + ncrashed >= nthreads - 1

\* `for t in self._threads: t.join()` returns: every worker thread has ended
AllJoined(nthreads, nexited, ncrashed) == nexited + ncrashed = nthreads

\* shutdown(wait=True) returns once the worker threads are joined
MainJoin ==
    /\ mphase = "join"
    /\ pending = <<>> /\ call_queue = <<>>
    /\ AllJoined(num_threads, exited, crashed)
    /\ mphase' = ""
    /\ shutdown_returned' = TRUE
    /\ pc' = IF raised # "" THEN Len(Prog) + 1 ELSE pc + 1
    /\ UNCHANGED <<cfgVars, queue, pending, fstate, fvalue, done_callbacks, cb_calls,
                   cb_early, workerVars, idle_semaphore, shutdown, started,
                   cancelled, cancel_queued, yielded, raised>>

mainVars == <<pc, mphase, cancelled, cancel_queued, yielded, consumed, raised,
              shutdown_returned>>

\* faulty variant: get() hands out the first item and leaves it in the queue
QueuePeek(wq) == [item |-> Head(wq), rest |-> wq]

\* work_queue.get(): the item taken and what is left in the queue
QueueGet(wq) == [item |-> Head(wq), rest |-> Tail(wq)]

\* faulty variant: a worker leaves its loop as soon as the executor is shut down,
\* whatever it took from the queue
ShouldExitOnFlag(item, shut) == shut

\* the worker leaves its loop: it took the None and the executor is shut down
ShouldExit(item, shut) == item.none /\ shut

\* sequence s without its i-th element
Without(s, i) == [j \in 1..(Len(s) - 1) |-> IF j < i THEN s[j] ELSE s[j + 1]]

\* The worker threads run the same loop and keep nothing between two work
\* items, so they are told apart only by the work item they hold.

\* _worker: work_item = work_queue.get(block=True) in one of the blocked
\* threads, and on None the exit check, which passes the None on
WorkerGet ==
    /\ idle > 0
    /\ queue # <<>>
    /\ LET g == QueueGet(queue)
       IN IF ShouldExit(g.item, shutdown)
          THEN /\ queue' = Append(g.rest, NoneItem)
               /\ idle' = idle - 1
               /\ exited' = exited + 1
               /\ UNCHANGED holders
          ELSE /\ queue' = g.rest
               /\ UNCHANGED exited
               /\ IF g.item.none
                  THEN UNCHANGED <<idle, holders>>
                  ELSE /\ idle' = idle - 1
                       /\ holders' = [holders EXCEPT ![g.item.t] = Append(@, "got")]
    /\ UNCHANGED <<cfgVars, mainVars, pending, fstate, fvalue, done_callbacks,
                   cb_calls, cb_early, num_threads, crashed, idle_semaphore,
                   shutdown, started>>

\* faulty variant: the item of a cancelled future is run all the same
SetRunningIgnoringCancel(s) ==
    CASE s \in {"CANCELLED", "PENDING"} -> [state |-> "RUNNING", run |-> TRUE, err |-> FALSE]
      [] OTHER -> [state |-> s, run |-> FALSE, err |-> TRUE]

\* Future.set_running_or_notify_cancel() on a state
SetRunningOrNotifyCancel(s) ==
    CASE s = "CANCELLED" -> [state |-> "CANCELLED_AND_NOTIFIED", run |-> FALSE, err |-> FALSE]
      [] s = "PENDING" -> [state |-> "RUNNING", run |-> TRUE, err |-> FALSE]
      [] OTHER -> [state |-> s, run |-> FALSE, err |-> TRUE]

\* _WorkItem.run, its first statement, in the i-th holder of task t's item:
\* the future is marked running and the function starts, or the item of a
\* cancelled future is dropped and the thread is idle again.  (A process
\* worker gets call items whose future the manager thread marked running.)
WorkerStart(t, i) ==
    /\ i \in DOMAIN holders[t]
    /\ holders[t][i] = "got"
    /\ LET r == IF Mode(demo) = "thread" THEN SetRunningOrNotifyCancel(fstate[t])
                ELSE [state |-> fstate[t], run |-> TRUE, err |-> FALSE]
       IN /\ fstate' = [fstate EXCEPT ![t] = r.state]
          /\ IF r.run
             THEN /\ holders' = [holders EXCEPT ![t][i] = "running"]
                  /\ started' = [started EXCEPT ![t] = @ + 1]
                  /\ UNCHANGED <<idle, crashed, idle_semaphore>>
             ELSE /\ holders' = [holders EXCEPT ![t] = Without(@, i)]
                  /\ idle' = IF r.err THEN idle ELSE idle + 1
                  /\ crashed' = IF r.err THEN crashed + 1 ELSE crashed
                  /\ idle_semaphore' = IF r.err THEN idle_semaphore ELSE idle_semaphore + 1
                  /\ UNCHANGED started
    /\ UNCHANGED <<cfgVars, mainVars, queue, pending, fvalue, done_callbacks,
                   cb_calls, cb_early, num_threads, exited, shutdown>>

\* faulty variant: no except clause, an exception of the function ends the thread
WorkItemRunNoExcept(f) ==
    [fstate |-> "FINISHED", fvalue |-> Outcome(f), crash |-> Outcome(f).kind = "exception"]

\* _WorkItem.run, the try/except/else around fn(*args): the return value or
\* the exception is stored on the future, and the worker thread goes on
WorkItemRun(f) ==
    [fstate |-> "FINISHED", fvalue |-> Outcome(f), crash |-> FALSE]

\* the task's function returns or raises, and set_result / set_exception
\* (which raise InvalidStateError on a future that is not running)
WorkerFinish(t, i) ==
    /\ i \in DOMAIN holders[t]
    /\ holders[t][i] = "running"
    /\ LET r == WorkItemRun(Call(TaskFn(demo, t), ThreadIsAlive(holders[t][i])))
       IN IF fstate[t] = "RUNNING" /\ ~r.crash
          THEN /\ fstate' = [fstate EXCEPT ![t] = r.fstate]
               /\ fvalue' = [fvalue EXCEPT ![t] = r.fvalue]
               /\ holders' = [holders EXCEPT ![t][i] = "callbacks"]
               /\ UNCHANGED crashed
          ELSE /\ holders' = [holders EXCEPT ![t] = Without(@, i)]
               /\ crashed' = crashed + 1
               /\ UNCHANGED <<fstate, fvalue>>
    /\ UNCHANGED <<cfgVars, mainVars, queue, pending, done_callbacks, cb_calls,
                   cb_early, num_threads, idle, exited, idle_semaphore, shutdown,
                   started>>

\* Future._invoke_callbacks on the worker's thread after set_result /
\* set_exception; then the worker announces itself idle and loops
WorkerInvokeCallbacks(t, i) ==
    /\ i \in DOMAIN holders[t]
    /\ holders[t][i] = "callbacks"
    /\ cb_calls' = [cb_calls EXCEPT ![t] = @ + done_callbacks[t]]
    /\ cb_early' = IF done_callbacks[t] > 0 /\ ~Terminal(fstate[t])
                   THEN cb_early \cup {t} ELSE cb_early
    /\ holders' = [holders EXCEPT ![t] = Without(@, i)]
    /\ idle' = idle + 1
    /\ idle_semaphore' = idle_semaphore + 1
    /\ UNCHANGED <<cfgVars, mainVars, queue, pending, fstate, fvalue,
                   done_callbacks, num_threads, exited, crashed, shutdown, started>>

\* process pool, executor manager thread (add_call_item_to_queue): the next
\* pending work item becomes a call item unless its future was cancelled
ManagerAddCallItem ==
    /\ pending # <<>>
    /\ Len(call_queue) < max_workers + 1
    /\ LET item == Head(pending)
       IN IF item.none
          THEN call_queue' = Append(call_queue, item) /\ UNCHANGED fstate
          ELSE LET r == SetRunningOrNotifyCancel(fstate[item.t])
               IN /\ fstate' = [fstate EXCEPT ![item.t] = r.state]
                  /\ call_queue' = IF r.run THEN Append(call_queue, item) ELSE call_queue
    /\ pending' = Tail(pending)
    /\ UNCHANGED <<syncVars, asyncVars, demo, max_workers, ntasks, wait_flag, mainVars, queue, fvalue,
                   done_callbacks, cb_calls, cb_early, workerVars,
                   idle_semaphore, shutdown, started>>

\* process pool, queue feeder thread: the call item is pickled and sent to the
\* workers, or the pickling error is set on its future (_on_queue_feeder_error)
QueueFeeder ==
    /\ call_queue # <<>>
    /\ LET item == Head(call_queue)
       IN IF item.none \/ Picklable(TaskFn(demo, item.t))
          THEN queue' = Append(queue, item) /\ UNCHANGED <<fstate, fvalue>>
          ELSE /\ fstate' = [fstate EXCEPT ![item.t] = "FINISHED"]
               /\ fvalue' = [fvalue EXCEPT ![item.t] = Exception("PicklingError")]
               /\ UNCHANGED queue
    /\ call_queue' = Tail(call_queue)
    /\ UNCHANGED <<syncVars, asyncVars, demo, max_workers, ntasks, wait_flag, mainVars, pending,
                   done_callbacks, cb_calls, cb_early, workerVars,
                   idle_semaphore, shutdown, started>>

WorkerNext ==
    \/ WorkerGet
    \/ \E t \in Tasks : \E i \in DOMAIN holders[t] : WorkerStart(t, i)
    \/ \E t \in Tasks : \E i \in DOMAIN holders[t] : WorkerFinish(t, i)
    \/ \E t \in Tasks : \E i \in DOMAIN holders[t] : WorkerInvokeCallbacks(t, i)
    \/ ManagerAddCallItem
    \/ QueueFeeder

MainNext ==
    \/ MainSubmit
    \/ MainResult
    \/ MainAsCompleted
    \/ MainMapResult
    \/ MainCancel
    \/ MainAddDoneCallback
    \/ MainInvokeCallback
    \/ MainWait
    \/ MainShutdown
    \/ MainJoin

Next == MainNext \/ WorkerNext

Spec == Init /\ [][Next]_vars

\* The worker threads, the manager thread and the feeder thread are scheduled
\* by the operating system whatever the main thread does.
FairSpec == Spec /\ WF_vars(WorkerNext)

(***************************************************************************)
(* The synchronization demos (01_thread_synchronization.py): threads       *)
(* started and joined by the main thread, around one primitive each.       *)
(* Threads are numbered from 1 in the order the main thread starts them.   *)
(***************************************************************************)

\* no executor demo runs
ExecOff ==
    /\ demo = "off"
    /\ max_workers = 0
    /\ ntasks = 0
    /\ wait_flag = FALSE
    /\ pc = 1
    /\ mphase = ""
    /\ queue = <<>>
    /\ pending = <<>>
    /\ call_queue = <<>>
    /\ fstate = <<>>
    /\ fvalue = <<>>
    /\ done_callbacks = <<>>
    /\ cb_calls = <<>>
    /\ cb_early = {}
    /\ num_threads = 0
    /\ idle = 0
    /\ exited = 0
    /\ crashed = 0
    /\ holders = <<>>
    /\ idle_semaphore = 0
    /\ shutdown = FALSE
    /\ started = <<>>
    /\ cancelled = "unset"
    /\ cancel_queued = FALSE
    /\ yielded = <<>>
    /\ consumed = {}
    /\ raised = ""
    /\ shutdown_returned = FALSE

SyncDemos ==
    {"counter", "semaphore", "bounded", "bounded_twice", "barrier",
     "rlock", "plain_lock", "condition", "queue", "daemon", "pipe"}

\* the threads each demo creates
SyncThreads(d) ==
    CASE d = "counter" -> 1..3
      [] d = "semaphore" -> 1..5
      [] d \in {"bounded", "bounded_twice"} -> 1..3
      [] d = "barrier" -> 1..3
      [] d \in {"rlock", "plain_lock"} -> 1..1
      [] d = "condition" -> 1..3
      [] d = "queue" -> 1..2
      [] d = "daemon" -> 1..5
      [] d = "pipe" -> 1..2
      [] OTHER -> {}

\* the `amount` each increment_counter thread is given
Amount(t) == 3

\* the first statement of a thread's target function
Entry(d, t) ==
    CASE d = "counter" -> "for"
      [] d = "semaphore" -> "wait"
      [] d \in {"bounded", "bounded_twice"} -> "acquiring"
      [] d = "barrier" -> "starting"
      [] d \in {"rlock", "plain_lock"} -> "start"
      [] d = "condition" -> "enter"
      [] d = "queue" -> IF t = 1 THEN "produce" ELSE "get"
      [] d = "pipe" -> IF t = 1 THEN "pipe_send" ELSE "pipe_recv"
      [] d = "daemon" ->
           IF t = 1 THEN "daemon_loop" ELSE IF t = 5 THEN "timer_wait" ELSE "event_wait"
      [] OTHER -> "done"

\* The main thread's statements: t.start() and t.join() for the demo's n
\* threads, its loops unrolled.
\* faulty variant: the None is put before the producer is joined
QueueMainSentinelFirst ==
    <<[op |-> "put_none", th |-> 0], [op |-> "join", th |-> 1],
      [op |-> "join", th |-> 2]>>

\* the queue demo's main thread after the two starts: producer_thread.join(),
\* q.put(None), consumer_thread.join()
QueueMain ==
    <<[op |-> "join", th |-> 1], [op |-> "put_none", th |-> 0],
      [op |-> "join", th |-> 2]>>

SyncProgram(d, n) ==
    LET Starts == [t \in 1..n |-> [op |-> "start", th |-> t]]
        Joins == [t \in 1..n |-> [op |-> "join", th |-> t]]
    IN CASE d \in {"counter", "semaphore", "bounded", "bounded_twice", "barrier",
                    "rlock", "plain_lock"} ->
              Starts \o Joins
         [] d = "condition" ->
              Starts \o <<[op |-> "join", th |-> 3], [op |-> "join", th |-> 1],
                          [op |-> "join", th |-> 2]>>
         [] d = "queue" ->
              Starts \o QueueMain
         [] d = "daemon" ->
              <<[op |-> "start", th |-> 1], [op |-> "report_exit", th |-> 0],
                [op |-> "start", th |-> 2], [op |-> "start", th |-> 3],
                [op |-> "start", th |-> 4], [op |-> "set_event", th |-> 0],
                [op |-> "join", th |-> 2], [op |-> "join", th |-> 3],
                [op |-> "join", th |-> 4], [op |-> "start", th |-> 5],
                [op |-> "join", th |-> 5]>>
         [] d = "pipe" ->
              <<[op |-> "start_process", th |-> 1], [op |-> "start_process", th |-> 2],
                [op |-> "close_conns", th |-> 0],
                [op |-> "join", th |-> 1], [op |-> "join", th |-> 2]>>
         [] OTHER -> <<>>

SyncProg == SyncProgram(sdemo, Len(tstate))

\* the demos whose thread count the model varies
Scalable(d) == d \in {"barrier", "rlock", "plain_lock"}

SyncInit ==
    /\ ExecOff
    /\ AsyncOff
    /\ sdemo \in SyncDemos
    /\ main_pc = 1
    /\ \E k \in 0..(IF Scalable(sdemo) THEN ExtraThreads ELSE 0) :
          tstate = [t \in 1..(Cardinality(SyncThreads(sdemo)) + k) |-> "unstarted"]
    /\ lock = 0
    /\ counter = 0
    /\ current = [t \in DOMAIN tstate |-> 0]
    /\ loops = [t \in DOMAIN tstate |-> 0]
    /\ printed = <<>>
    /\ wait_result = [t \in DOMAIN tstate |-> "unset"]
    /\ q = <<>>
    /\ consumed_items = <<>>
    /\ rlock = [owner |-> 0, count |-> 0]
    /\ condition = [owner |-> 0, waiters |-> {}, notified |-> {}]
    /\ data_ready = "unbound"
    /\ barrier = [state |-> 0, count |-> 0]
    /\ arrived = <<>>
    /\ semaphore = 2
    /\ bounded_semaphore = 2
    /\ event = FALSE
    /\ dlog = <<>>
    /\ pipe = [buf |-> <<>>, sent |-> 0, holders |-> {0}]
    /\ received = <<>>

SyncAt(op) == main_pc <= Len(SyncProg) /\ SyncProg[main_pc].op = op

\* a thread that has ended: it returned, or an exception ended it
Ended(st) == st \in {"done", "timed_out", "NameError", "ValueError", "RuntimeError"}

\* t.start()
SyncStart ==
    /\ SyncAt("start")
    /\ tstate' = [tstate EXCEPT ![SyncProg[main_pc].th] = Entry(sdemo, SyncProg[main_pc].th)]
    /\ main_pc' = main_pc + 1
    /\ UNCHANGED <<execVars, asyncVars, sdemo, primVars>>

\* t.join() returns once the thread has ended
SyncJoin ==
    /\ SyncAt("join")
    /\ Ended(tstate[SyncProg[main_pc].th])
    /\ main_pc' = main_pc + 1
    /\ UNCHANGED <<execVars, asyncVars, sdemo, tstate, primVars>>

\* faulty variant: acquire() does not wait for the lock to be free
LockFreeAlways(l) == TRUE

\* Lock.acquire() blocks while the lock is held
LockFree(l) == l = 0

\* faulty variant: the acquire leaves the lock unlocked
LockAcquireUnmarked(l, t) == l

\* Lock.acquire() by thread t: the lock is locked
LockAcquire(l, t) == t

\* increment_counter: `with lock:` entered
IncAcquire(t) ==
    /\ tstate[t] = "for"
    /\ LockFree(lock)
    /\ lock' = LockAcquire(lock, t)
    /\ tstate' = [tstate EXCEPT ![t] = "locked"]
    /\ UNCHANGED <<notCounter, counter, current, loops, printed>>

\* current = counter
IncRead(t) ==
    /\ tstate[t] = "locked"
    /\ current' = [current EXCEPT ![t] = counter]
    /\ tstate' = [tstate EXCEPT ![t] = "sleep"]
    /\ UNCHANGED <<notCounter, lock, counter, loops, printed>>

\* after time.sleep(0.001): counter = current + 1
IncWrite(t) ==
    /\ tstate[t] = "sleep"
    /\ counter' = current[t] + 1
    /\ tstate' = [tstate EXCEPT ![t] = "print"]
    /\ UNCHANGED <<notCounter, lock, current, loops, printed>>

\* print(f"Thread {thread_name}: counter = {counter}")
IncPrint(t) ==
    /\ tstate[t] = "print"
    /\ printed' = Append(printed, counter)
    /\ tstate' = [tstate EXCEPT ![t] = "exit"]
    /\ UNCHANGED <<notCounter, lock, counter, current, loops>>

\* the `with lock:` block is left (Lock.release()), and the loop goes on or ends
IncRelease(t) ==
    /\ tstate[t] = "exit"
    /\ lock' = 0
    /\ loops' = [loops EXCEPT ![t] = loops[t] + 1]
    /\ tstate' = [tstate EXCEPT ![t] = IF loops[t] + 1 < Amount(t) THEN "for" ELSE "done"]
    /\ UNCHANGED <<notCounter, counter, current, printed>>

\* faulty variant: acquire() does not wait for a permit
SemaphoreBlockedNever(v) == FALSE

\* Semaphore.acquire(): `while self._value == 0: self._cond.wait()`
SemaphoreBlocked(v) == v = 0

\* limited_resource: `with semaphore:` entered, "acquired the resource"
LimAcquire(t) ==
    /\ sdemo = "semaphore"
    /\ tstate[t] = "wait"
    /\ ~SemaphoreBlocked(semaphore)
    /\ semaphore' = semaphore - 1
    /\ tstate' = [tstate EXCEPT ![t] = "holding"]
    /\ UNCHANGED <<notSem, bounded_semaphore>>

\* after time.sleep(1): "releasing the resource"
LimUse(t) ==
    /\ sdemo = "semaphore"
    /\ tstate[t] = "holding"
    /\ tstate' = [tstate EXCEPT ![t] = "releasing"]
    /\ UNCHANGED <<notSem, semVars>>

\* the `with semaphore:` block is left: Semaphore.release()
LimRelease(t) ==
    /\ sdemo = "semaphore"
    /\ tstate[t] = "releasing"
    /\ semaphore' = semaphore + 1
    /\ tstate' = [tstate EXCEPT ![t] = "done"]
    /\ UNCHANGED <<notSem, bounded_semaphore>>

\* use_bounded_semaphore: bounded_semaphore.acquire()
BndAcquire(t) ==
    /\ tstate[t] = "acquiring"
    /\ ~SemaphoreBlocked(bounded_semaphore)
    /\ bounded_semaphore' = bounded_semaphore - 1
    /\ tstate' = [tstate EXCEPT ![t] = "working"]
    /\ UNCHANGED <<notSem, semaphore>>

\* after time.sleep(0.5), in the finally block: "releasing semaphore"
BndWork(t) ==
    /\ tstate[t] = "working"
    /\ tstate' = [tstate EXCEPT ![t] = "release"]
    /\ UNCHANGED <<notSem, semVars>>

\* faulty variant: the release of a plain Semaphore, which knows no bound
SemaphoreRelease(v, initial) == [value |-> v + 1, error |-> FALSE]

\* BoundedSemaphore.release(): `if self._value + 1 > self._initial_value:
\* raise ValueError("Semaphore released too many times")`
BoundedRelease(v, initial) ==
    IF v + 1 > initial THEN [value |-> v, error |-> TRUE]
    ELSE [value |-> v + 1, error |-> FALSE]

\* bounded_semaphore.release() of line 255, and the one of line 257 that
\* the demo "bounded_twice" runs with its comment sign removed
BndRelease(t) ==
    /\ tstate[t] \in {"release", "release2"}
    /\ LET r == BoundedRelease(bounded_semaphore, 2)
       IN /\ bounded_semaphore' = r.value
          /\ tstate' = [tstate EXCEPT ![t] =
                IF r.error THEN "ValueError"
                ELSE IF sdemo = "bounded_twice" /\ tstate[t] = "release"
                     THEN "release2" ELSE "done"]
    /\ UNCHANGED <<notSem, semaphore>>

\* threading.Barrier(3)
Parties == 3

\* worker: after time.sleep(random.random()), "reached the barrier"
WorkerReach(t) ==
    /\ sdemo = "barrier"
    /\ tstate[t] = "starting"
    /\ tstate' = [tstate EXCEPT ![t] = "reached"]
    /\ UNCHANGED <<notBarrier, barrierVars>>

\* faulty variant: the barrier opens one arrival early
IsLastArrivalEarly(index, parties) == index + 1 >= parties - 1

\* Barrier.wait: `if index + 1 == self._parties:` the caller releases the barrier
IsLastArrival(index, parties) == index + 1 = parties

\* Barrier.n_waiting: the threads waiting in the barrier's current round
NWaiting(b) == IF b.state = 0 THEN b.count ELSE 0

\* barrier.wait() up to the point where the caller waits or returns: _enter
\* (blocks while the barrier drains), the count, and for the last arrival
\* _release (draining state) followed by its own exit
BarrierEnter(t) ==
    /\ tstate[t] = "reached"
    /\ barrier.state = 0
    /\ arrived' = Append(arrived, t)
    /\ IF IsLastArrival(barrier.count, Parties)
       THEN /\ barrier' = [state |-> IF barrier.count = 0 THEN 0 ELSE 1,
                           count |-> barrier.count]
            /\ tstate' = [tstate EXCEPT ![t] = "continuing"]
       ELSE /\ barrier' = [barrier EXCEPT !.count = barrier.count + 1]
            /\ tstate' = [tstate EXCEPT ![t] = "in_barrier"]
    /\ UNCHANGED notBarrier

\* barrier.wait() returns in a thread that waited: the barrier drains
\* (`wait_for(lambda: self._state != 0)`), then the count goes down and the
\* last thread to leave sets the barrier filling again
BarrierLeave(t) ==
    /\ tstate[t] = "in_barrier"
    /\ barrier.state # 0
    /\ barrier' = [state |-> IF barrier.count - 1 = 0 THEN 0 ELSE barrier.state,
                   count |-> barrier.count - 1]
    /\ tstate' = [tstate EXCEPT ![t] = "continuing"]
    /\ UNCHANGED <<notBarrier, arrived>>

\* print "continuing after the barrier", and the thread ends
WorkerContinue(t) ==
    /\ sdemo = "barrier"
    /\ tstate[t] = "continuing"
    /\ tstate' = [tstate EXCEPT ![t] = "done"]
    /\ UNCHANGED <<notBarrier, barrierVars>>

\* RLock.acquire() by thread t can go on: the lock is free, or t owns it
RLockAvailable(r, t) == r.owner = 0 \/ r.owner = t

\* RLock.acquire(): the owner takes it once more, another thread takes it free
RLockAcquire(r, t) ==
    IF r.owner = t THEN [r EXCEPT !.count = r.count + 1]
    ELSE [owner |-> t, count |-> 1]

\* faulty variant: the first release unlocks, however deep the owner is
RLockReleaseFlat(r, t) == [owner |-> 0, count |-> 0]

\* RLock.release() by its owner: one level less, unlocked at level 0
RLockRelease(r, t) ==
    IF r.count - 1 = 0 THEN [owner |-> 0, count |-> 0]
    ELSE [r EXCEPT !.count = r.count - 1]

\* faulty variant: a plain Lock that lets its holder in again
PlainLockReentrant(r, t) == r.owner = 0 \/ r.owner = t

\* threading.Lock.acquire(): blocks while the lock is locked, whoever holds
\* it ("With a regular Lock, this would deadlock")
PlainLockAvailable(r, t) == r.owner = 0

\* the lock nested_locks uses: the RLock, or in the demo "plain_lock" a
\* regular Lock in its place
NestedAvailable(d, r, t) ==
    IF d = "plain_lock" THEN PlainLockAvailable(r, t) ELSE RLockAvailable(r, t)

\* nested_locks: the outer and the inner `with rlock:` are entered
NestedAcquire(t) ==
    /\ sdemo \in {"rlock", "plain_lock"}
    /\ tstate[t] \in {"start", "outer"}
    /\ NestedAvailable(sdemo, rlock, t)
    /\ rlock' = RLockAcquire(rlock, t)
    /\ tstate' = [tstate EXCEPT ![t] = IF tstate[t] = "start" THEN "outer" ELSE "inner"]
    /\ UNCHANGED notRLock

\* nested_locks: the inner block is left ("Released inner lock"), then the
\* outer one ("Released outer lock"); releasing a lock one does not own
\* raises RuntimeError
NestedRelease(t) ==
    /\ sdemo \in {"rlock", "plain_lock"}
    /\ tstate[t] \in {"inner", "after_inner"}
    /\ IF rlock.owner = t
       THEN /\ rlock' = RLockRelease(rlock, t)
            /\ tstate' = [tstate EXCEPT ![t] =
                  IF tstate[t] = "inner" THEN "after_inner" ELSE "done"]
       ELSE /\ tstate' = [tstate EXCEPT ![t] = "RuntimeError"]
            /\ UNCHANGED rlock
    /\ UNCHANGED notRLock

\* The condition demo: threads 1 and 2 are consumer1 ("A") and consumer2
\* ("B"), thread 3 is the provider.  data_provider and data_consumer declare
\* `global data_ready`, so they use the module's global of that name, which
\* nothing binds before the provider's assignment; the local data_ready = False
\* of advanced_synchronization_example is a different variable.
IsProvider(t) == t = 3

\* `with condition:` entered (the condition's lock acquired)
CondEnter(t) ==
    /\ sdemo = "condition"
    /\ tstate[t] = "enter"
    /\ condition.owner = 0
    /\ condition' = [condition EXCEPT !.owner = t]
    /\ tstate' = [tstate EXCEPT ![t] = IF IsProvider(t) THEN "prepare" ELSE "test"]
    /\ UNCHANGED <<notCond, data_ready, wait_result>>

\* data_provider: after time.sleep(2), data_ready = True
ProviderSet(t) ==
    /\ sdemo = "condition"
    /\ tstate[t] = "prepare"
    /\ data_ready' = "True"
    /\ tstate' = [tstate EXCEPT ![t] = "notify"]
    /\ UNCHANGED <<notCond, condition, wait_result>>

\* data_provider: condition.notify_all(), and the with block is left
ProviderNotify(t) ==
    /\ sdemo = "condition"
    /\ tstate[t] = "notify"
    /\ condition' = [owner |-> 0, waiters |-> {},
                     notified |-> condition.notified \cup condition.waiters]
    /\ tstate' = [tstate EXCEPT ![t] = "done"]
    /\ UNCHANGED <<notCond, data_ready, wait_result>>

\* data_consumer: `if not data_ready:` reads the global: NameError while it
\* is unbound (the with block is left by the exception), condition.wait when
\* it is false, straight on when it is true
ConsumerTest(t) ==
    /\ sdemo = "condition"
    /\ tstate[t] = "test"
    /\ CASE data_ready = "unbound" ->
              /\ tstate' = [tstate EXCEPT ![t] = "NameError"]
              /\ condition' = [condition EXCEPT !.owner = 0]
         [] data_ready = "False" ->
              /\ tstate' = [tstate EXCEPT ![t] = "waiting"]
              /\ condition' = [condition EXCEPT !.owner = 0,
                                               !.waiters = condition.waiters \cup {t}]
         [] OTHER ->
              /\ tstate' = [tstate EXCEPT ![t] = "process"]
              /\ UNCHANGED condition
    /\ UNCHANGED <<notCond, data_ready, wait_result>>

\* data_consumer after the test.  In wait(): the thread was notified, or its
\* timeout ran out (at any moment: time is not modelled), and wait returns
\* once it has the lock again; on a timeout the consumer returns.  Else:
\* "data received, processing", and the with block is left.
ConsumerProceed(t) ==
    /\ sdemo = "condition"
    /\ \/ /\ tstate[t] = "waiting"
          /\ condition.owner = 0
          /\ \E gotit \in {t \in condition.notified} \cup {FALSE} :
                /\ wait_result' = [wait_result EXCEPT ![t] = IF gotit THEN "True" ELSE "False"]
                /\ condition' = [owner |-> IF gotit THEN t ELSE 0,
                                 waiters |-> condition.waiters \ {t},
                                 notified |-> condition.notified \ {t}]
                /\ tstate' = [tstate EXCEPT ![t] = IF gotit THEN "process" ELSE "timed_out"]
       \/ /\ tstate[t] = "process"
          /\ condition' = [condition EXCEPT !.owner = 0]
          /\ tstate' = [tstate EXCEPT ![t] = "done"]
          /\ UNCHANGED wait_result
    /\ UNCHANGED <<notCond, data_ready>>

\* range(5): the producer's items
ItemCount == 5

\* an item of the queue: f"item-{i}", or the None the main thread puts
Item(i) == [none |-> FALSE, i |-> i]

NoneSentinel == [none |-> TRUE, i |-> 0]

\* faulty variant: the new item goes to the front
QPutFront(items, x) == <<x>> \o items

\* Queue.put on an unbounded queue: the item goes to the back
QPut(items, x) == Append(items, x)

\* producer: q.put(f"item-{i}"), print, sleep, for i in range(5)
Produce(t) ==
    /\ sdemo = "queue"
    /\ tstate[t] = "produce"
    /\ q' = QPut(q, Item(loops[t]))
    /\ loops' = [loops EXCEPT ![t] = loops[t] + 1]
    /\ tstate' = [tstate EXCEPT ![t] = IF loops[t] + 1 < ItemCount THEN "produce" ELSE "done"]
    /\ UNCHANGED <<execVars, asyncVars, sdemo, main_pc, lock, counter, current, printed,
                   consumed_items,
                   rlock, condVars, barrierVars, semVars, daemonVars, pipeVars>>

\* consumer: item = q.get() (blocks while the queue is empty); on None the
\* loop is left, else the item is printed as consumed
Consume(t) ==
    /\ sdemo = "queue"
    /\ tstate[t] = "get"
    /\ q # <<>>
    /\ q' = Tail(q)
    /\ IF Head(q).none
       THEN /\ tstate' = [tstate EXCEPT ![t] = "done"]
            /\ UNCHANGED consumed_items
       ELSE /\ consumed_items' = Append(consumed_items, Head(q).i)
            /\ UNCHANGED tstate
    /\ UNCHANGED notQueue

\* The Pipe demo (advanced/01_multiprocessing_example.py): process 1 is the
\* sender, process 2 the receiver, process 0 the parent.  The processes are
\* started by fork (the start method on Linux), so each child begins with a
\* copy of every connection handle the parent holds open at that moment.
\* Only the handles of the sending end (child_conn) are followed: recv on
\* the other end raises EOFError when nothing is buffered and no process
\* holds the sending end open.

\* for i in range(5): the sender's messages
MessageCount == 5

\* sender: conn.send({"index": i, ...}) for i in range(5)
PipeSend(t) ==
    /\ sdemo = "pipe"
    /\ tstate[t] = "pipe_send"
    /\ pipe' = [pipe EXCEPT !.buf = Append(pipe.buf, pipe.sent), !.sent = pipe.sent + 1]
    /\ tstate' = [tstate EXCEPT ![t] =
          IF pipe.sent + 1 < MessageCount THEN "pipe_send" ELSE "pipe_close"]
    /\ UNCHANGED <<notPipe, main_pc, received>>

\* sender: conn.close(), and the process ends
PipeClose(t) ==
    /\ sdemo = "pipe"
    /\ tstate[t] = "pipe_close"
    /\ pipe' = [pipe EXCEPT !.holders = pipe.holders \ {t}]
    /\ tstate' = [tstate EXCEPT ![t] = "done"]
    /\ UNCHANGED <<notPipe, main_pc, received>>

\* receiver: data = conn.recv() returns the oldest message; with nothing
\* buffered it blocks while a handle of the sending end is open and raises
\* EOFError when none is ("Connection closed by sender", break)
PipeRecv(t) ==
    /\ sdemo = "pipe"
    /\ tstate[t] = "pipe_recv"
    /\ IF pipe.buf # <<>>
       THEN /\ received' = Append(received, Head(pipe.buf))
            /\ pipe' = [pipe EXCEPT !.buf = Tail(pipe.buf)]
            /\ UNCHANGED tstate
       ELSE /\ pipe.holders = {}
            /\ tstate' = [tstate EXCEPT ![t] = "done"]
            /\ UNCHANGED <<pipe, received>>
    /\ UNCHANGED <<notPipe, main_pc>>

\* Bound of the model: the iterations of the daemon's endless loop that are
\* followed.
MaxDaemonLoops == 3

\* the iterations the daemon has made
DaemonLoops == Cardinality({i \in DOMAIN dlog : dlog[i] = "daemon_working"})

\* The daemon demo (beginner/01_threading_module.py): thread 1 is the daemon
\* thread, threads 2 to 4 are the waiters of the Event demo and thread 5 is
\* the Timer, which the same function goes on with.  A daemon thread runs
\* until the interpreter exits, which is after the main thread has left its
\* program.

\* daemon_worker: while True: print("Daemon working..."); time.sleep(0.5)
DaemonWork(t) ==
    /\ sdemo = "daemon"
    /\ tstate[t] = "daemon_loop"
    /\ main_pc <= Len(SyncProg)
    /\ DaemonLoops < MaxDaemonLoops
    /\ dlog' = Append(dlog, "daemon_working")
    /\ UNCHANGED <<notDaemon, main_pc, tstate, event>>

\* waiter: event.wait() returns once the event is set, "received event"
EventWait(t) ==
    /\ sdemo = "daemon"
    /\ tstate[t] = "event_wait"
    /\ event
    /\ tstate' = [tstate EXCEPT ![t] = "done"]
    /\ UNCHANGED <<notDaemon, main_pc, daemonVars>>

\* threading.Timer(1.0, delayed_task): after the delay the task runs and the
\* timer thread ends
TimerRun(t) ==
    /\ sdemo = "daemon"
    /\ tstate[t] = "timer_wait"
    /\ dlog' = Append(dlog, "delayed_task")
    /\ tstate' = [tstate EXCEPT ![t] = "done"]
    /\ UNCHANGED <<notDaemon, main_pc, event>>

SyncThreadNext ==
    \/ \E t \in DOMAIN tstate : IncAcquire(t)
    \/ \E t \in DOMAIN tstate : IncRead(t)
    \/ \E t \in DOMAIN tstate : IncWrite(t)
    \/ \E t \in DOMAIN tstate : IncPrint(t)
    \/ \E t \in DOMAIN tstate : IncRelease(t)
    \/ \E t \in DOMAIN tstate : LimAcquire(t)
    \/ \E t \in DOMAIN tstate : LimUse(t)
    \/ \E t \in DOMAIN tstate : LimRelease(t)
    \/ \E t \in DOMAIN tstate : BndAcquire(t)
    \/ \E t \in DOMAIN tstate : BndWork(t)
    \/ \E t \in DOMAIN tstate : BndRelease(t)
    \/ \E t \in DOMAIN tstate : WorkerReach(t)
    \/ \E t \in DOMAIN tstate : BarrierEnter(t)
    \/ \E t \in DOMAIN tstate : BarrierLeave(t)
    \/ \E t \in DOMAIN tstate : WorkerContinue(t)
    \/ \E t \in DOMAIN tstate : NestedAcquire(t)
    \/ \E t \in DOMAIN tstate : NestedRelease(t)
    \/ \E t \in DOMAIN tstate : CondEnter(t)
    \/ \E t \in DOMAIN tstate : ProviderSet(t)
    \/ \E t \in DOMAIN tstate : ProviderNotify(t)
    \/ \E t \in DOMAIN tstate : ConsumerTest(t)
    \/ \E t \in DOMAIN tstate : ConsumerProceed(t)
    \/ \E t \in DOMAIN tstate : Produce(t)
    \/ \E t \in DOMAIN tstate : Consume(t)
    \/ \E t \in DOMAIN tstate : PipeSend(t)
    \/ \E t \in DOMAIN tstate : PipeClose(t)
    \/ \E t \in DOMAIN tstate : PipeRecv(t)
    \/ \E t \in DOMAIN tstate : DaemonWork(t)
    \/ \E t \in DOMAIN tstate : EventWait(t)
    \/ \E t \in DOMAIN tstate : TimerRun(t)

\* q.put(None), after the producer is joined
SyncPutNone ==
    /\ SyncAt("put_none")
    /\ q' = QPut(q, NoneSentinel)
    /\ main_pc' = main_pc + 1
    /\ UNCHANGED <<execVars, asyncVars, sdemo, tstate, counterVars, consumed_items, rlock,
                   condVars,
                   barrierVars, semVars, daemonVars, pipeVars>>

\* after time.sleep(1.5): print("Main thread exiting, daemon will be
\* terminated"); the main thread goes on with the next demo
SyncReportExit ==
    /\ SyncAt("report_exit")
    /\ dlog' = Append(dlog, "main_exiting")
    /\ main_pc' = main_pc + 1
    /\ UNCHANGED <<notDaemon, tstate, event>>

\* after time.sleep(1): event.set()
SyncSetEvent ==
    /\ SyncAt("set_event")
    /\ event' = TRUE
    /\ main_pc' = main_pc + 1
    /\ UNCHANGED <<notDaemon, tstate, dlog>>

\* Process.start() by fork: the child runs its target with a copy of the
\* handles the parent holds open
SyncStartProcess ==
    /\ SyncAt("start_process")
    /\ tstate' = [tstate EXCEPT ![SyncProg[main_pc].th] = Entry(sdemo, SyncProg[main_pc].th)]
    /\ pipe' = [pipe EXCEPT !.holders =
          IF 0 \in pipe.holders THEN pipe.holders \cup {SyncProg[main_pc].th}
          ELSE pipe.holders]
    /\ main_pc' = main_pc + 1
    /\ UNCHANGED <<notPipe, received>>

\* child_conn.close(); parent_conn.close() in the parent process
SyncCloseConns ==
    /\ SyncAt("close_conns")
    /\ pipe' = [pipe EXCEPT !.holders = pipe.holders \ {0}]
    /\ main_pc' = main_pc + 1
    /\ UNCHANGED <<notPipe, tstate, received>>

SyncMainNext ==
    \/ SyncStart
    \/ SyncJoin
    \/ SyncPutNone
    \/ SyncReportExit
    \/ SyncSetEvent
    \/ SyncStartProcess
    \/ SyncCloseConns

SyncNext == SyncMainNext \/ SyncThreadNext

SyncSpec == SyncInit /\ [][SyncNext]_vars

\* the threads are scheduled whatever the main thread does, and the main
\* thread is scheduled too
SyncFairSpec == SyncSpec /\ WF_vars(SyncThreadNext) /\ WF_vars(SyncMainNext)

(***************************************************************************)
(* The asyncio demos (02_asyncio_example.py): one event loop that runs the *)
(* handles of its ready queue one after the other, and, when none is       *)
(* ready, moves its clock to the earliest call_later deadline.  A task's   *)
(* steps take no time on that clock.  Task 0 is the demo's own coroutine.  *)
(***************************************************************************)

\* Bound of the delays the coroutines are run with besides the demo's own.
MaxDelay == 2

AsyncDemos == {"gather", "taskgroup", "timeout", "create_task"}

\* the tasks a demo creates, in creation order
AsyncTasks(d) ==
    CASE d = "gather" -> 1..3
      [] d = "taskgroup" -> 1..3
      [] d = "create_task" -> 1..2
      [] OTHER -> {}

\* the name each coroutine is given
CoroName(d, t) ==
    CASE d = "gather" -> <<"A", "B", "C">>[t]
      [] d = "taskgroup" -> <<"worker A", "worker B", "worker C">>[t]
      [] d = "create_task" -> <<"X", "Y">>[t]
      [] OTHER -> ""

\* the delays of the demo: fetch_data("A", 1), ("B", 0.5), ("C", 1.5);
\* worker("A", 0.5), ("B", 0.3), ("C", 0.7); asyncio.sleep(2) under
\* asyncio.timeout(1); fetch_data("X", 0.7), ("Y", 0.3) and the demo's own
\* asyncio.sleep(0.1)
DemoDelays(d) ==
    CASE d = "gather" -> <<10, 5, 15>>
      [] d = "taskgroup" -> <<5, 3, 7>>
      [] d = "timeout" -> <<20, 10>>
      [] d = "create_task" -> <<7, 3, 1>>
      [] OTHER -> <<>>

\* return f"Result from {name}"
ResultFrom(name) == [from |-> name]

\* return "Long task result"
LongTaskResult == [from |-> "Long task"]

\* a handle of the ready queue: a step of task t
Step(t) == [kind |-> "step", t |-> t]

\* a handle of the ready queue: gather's done callback for child t
GatherCallback(t) == [kind |-> "gather_callback", t |-> t]

\* a handle of the ready queue: the TaskGroup's done callback for child t
GroupCallback(t) == [kind |-> "group_callback", t |-> t]

\* a handle of the ready queue: the callback of asyncio.timeout's deadline
TimeoutCallback(t) == [kind |-> "timeout", t |-> t]

\* faulty variant: cancelling a task only wakes it up
ThrowAsWakeup(t) == [kind |-> "step", t |-> t]

\* a handle of the ready queue: a step of task t that raises CancelledError
\* at the await the task is suspended in
Throw(t) == [kind |-> "throw", t |-> t]

\* the done callback a finished child runs
DoneCallback(d, t) ==
    IF d = "taskgroup" THEN GroupCallback(t) ELSE GatherCallback(t)

\* the task the demo's coroutine is at `await task1` or `await task2` of
AwaitedTask(m) ==
    CASE m \in {"await_1", "waiting_1"} -> 1
      [] m \in {"await_2", "waiting_2"} -> 2
      [] OTHER -> 0

\* the handles a finishing task t schedules: its done callbacks.  A task
\* made by create_task has one only while another task is suspended in an
\* await of it: that task's wake-up, which runs its next step
DoneCallbacks(d, t, m) ==
    IF d = "create_task"
    THEN IF m \in {"waiting_1", "waiting_2"} /\ AwaitedTask(m) = t
         THEN <<Step(0)>> ELSE <<>>
    ELSE <<DoneCallback(d, t)>>

AsyncInit ==
    /\ ExecOff
    /\ SyncOff
    /\ ademo \in AsyncDemos
    /\ now = 0
    /\ ready = <<Step(0)>>
    /\ timers = <<>>
    /\ delays \in {DemoDelays(ademo)} \cup [DOMAIN DemoDelays(ademo) -> 1..MaxDelay]
    /\ cstate = [t \in AsyncTasks(ademo) |-> "none"]
    /\ cresult = [t \in AsyncTasks(ademo) |-> ResultFrom("")]
    /\ amain = "start"
    /\ nfinished = 0
    /\ outer = <<>>
    /\ results = <<>>
    /\ alog = <<>>
    /\ running = {}

notAsync == <<execVars, syncVars, ademo, delays>>

\* the loop is in the middle of running handle h
Running(h) == h \in running

\* faulty variant: the loop starts a handle while another one is running
LoopFreeAlways(r) == TRUE

\* the loop takes its next handle only when the one before has returned,
\* that is when the task it ran has reached an await or its end
LoopFree(r) == r = {}

\* the loop runs its ready handles first in, first out
ARunNext ==
    /\ ready # <<>>
    /\ LoopFree(running)
    /\ running' = running \cup {Head(ready)}
    /\ ready' = Tail(ready)
    /\ UNCHANGED <<notAsync, now, timers, cstate, cresult, amain, nfinished, outer, results,
                   alog>>

\* results = await asyncio.gather(*tasks), up to the await: every coroutine
\* is wrapped in a task, whose first step is scheduled with call_soon, in
\* argument order
AGather ==
    /\ ademo = "gather"
    /\ Running(Step(0))
    /\ amain = "start"
    /\ cstate' = [t \in DOMAIN cstate |-> "created"]
    /\ ready' = ready \o [t \in 1..Len(cstate) |-> Step(t)]
    /\ amain' = "await_gather"
    /\ running' = running \ {Step(0)}
    /\ UNCHANGED <<notAsync, now, timers, cresult, nfinished, outer, results, alog>>

\* fetch_data, worker: the print of "starting"
ATaskStart(t) ==
    /\ Running(Step(t))
    /\ cstate[t] = "created"
    /\ alog' = Append(alog, [ev |-> "starting", t |-> t])
    /\ cstate' = [cstate EXCEPT ![t] = "starting"]
    /\ UNCHANGED <<notAsync, now, ready, timers, cresult, amain, nfinished, outer, results,
                   running>>

\* await asyncio.sleep(delay): a timer is set with call_later and the task
\* gives the loop back
ATaskSleep(t) ==
    /\ Running(Step(t))
    /\ cstate[t] = "starting"
    /\ timers' = Append(timers, [when |-> now + delays[t], t |-> t, kind |-> "wakeup"])
    /\ cstate' = [cstate EXCEPT ![t] = "sleeping"]
    /\ running' = running \ {Step(t)}
    /\ UNCHANGED <<notAsync, now, ready, cresult, amain, nfinished, outer, results, alog>>

\* the timers that are due when the clock is at the earliest deadline
Due(ts) == {i \in DOMAIN ts : \A j \in DOMAIN ts : ts[i].when <= ts[j].when}

\* the subsequence of ts at the indices in keep
RECURSIVE Select(_, _)
Select(ts, keep) ==
    IF ts = <<>> THEN <<>>
    ELSE LET rest == Select(SubSeq(ts, 1, Len(ts) - 1), keep)
         IN IF Len(ts) \in keep THEN Append(rest, ts[Len(ts)]) ELSE rest

\* the handles hs without handle h (Handle.cancel())
Cancelled(hs, h) == Select(hs, {i \in DOMAIN hs : hs[i] # h})

\* the handle a due timer makes ready: the step of the task that sleeps, or
\* the callback of the timeout
TimerHandle(tm) == IF tm.kind = "timeout" THEN TimeoutCallback(tm.t) ELSE Step(tm.t)

\* the loop has nothing to run: it sleeps until the earliest timer is due and
\* makes the handles of the due timers ready
ATimer ==
    /\ ready = <<>>
    /\ running = {}
    /\ timers # <<>>
    /\ LET due == Select(timers, Due(timers))
       IN /\ now' = due[1].when
          /\ ready' = [i \in DOMAIN due |-> TimerHandle(due[i])]
          /\ timers' = Select(timers, DOMAIN timers \ Due(timers))
    /\ UNCHANGED <<notAsync, cstate, cresult, amain, nfinished, outer, results, alog,
                   running>>

\* fetch_data, worker after the await: the print of "finished"
ATaskResume(t) ==
    /\ Running(Step(t))
    /\ cstate[t] = "sleeping"
    /\ alog' = Append(alog, [ev |-> "finished", t |-> t])
    /\ cstate' = [cstate EXCEPT ![t] = "resumed"]
    /\ UNCHANGED <<notAsync, now, ready, timers, cresult, amain, nfinished, outer, results,
                   running>>

\* fetch_data, worker: the return value becomes the task's result, and the
\* task's done callbacks are scheduled
ATaskFinish(t) ==
    /\ Running(Step(t))
    /\ cstate[t] = "resumed"
    /\ cresult' = [cresult EXCEPT ![t] = ResultFrom(CoroName(ademo, t))]
    /\ cstate' = [cstate EXCEPT ![t] = "finished"]
    /\ ready' = ready \o DoneCallbacks(ademo, t, amain)
    /\ running' = running \ {Step(t)}
    /\ UNCHANGED <<notAsync, now, timers, amain, nfinished, outer, results, alog>>

\* the tasks in the order they finished
FinishOrder == Select(alog, {i \in DOMAIN alog : alog[i].ev = "finished"})

\* faulty variant: the results are listed in the order the children finished
GatherResultsAsCompleted(res, order) == [i \in DOMAIN order |-> res[order[i].t]]

\* gather's _done_callback: `for fut in children: results.append(fut.result())`
GatherResults(res, order) == [i \in DOMAIN res |-> res[i]]

\* gather's _done_callback for child t: the count, and with the last child
\* the result list is set on the outer future, which wakes the awaiting task
AGatherCallback(t) ==
    /\ Running(GatherCallback(t))
    /\ nfinished' = nfinished + 1
    /\ IF nfinished + 1 = Len(cstate)
       THEN /\ outer' = GatherResults(cresult, FinishOrder)
            /\ ready' = Append(ready, Step(0))
       ELSE /\ UNCHANGED outer
            /\ ready' = ready
    /\ running' = running \ {GatherCallback(t)}
    /\ UNCHANGED <<notAsync, now, timers, cstate, cresult, amain, results, alog>>

\* the demo coroutine goes on after its await: results = <the outer future's
\* result>, print
AGatherReturn ==
    /\ Running(Step(0))
    /\ amain = "await_gather"
    /\ results' = outer
    /\ amain' = "done"
    /\ running' = running \ {Step(0)}
    /\ UNCHANGED <<notAsync, now, ready, timers, cstate, cresult, nfinished, outer, alog>>

\* async with asyncio.TaskGroup() as tg: three tg.create_task(worker(...)),
\* each scheduling the first step of its task, the print, and the end of the
\* block, where __aexit__ awaits the group's completion future
AGroupEnter ==
    /\ ademo = "taskgroup"
    /\ Running(Step(0))
    /\ amain = "start"
    /\ cstate' = [t \in DOMAIN cstate |-> "created"]
    /\ ready' = ready \o [t \in 1..Len(cstate) |-> Step(t)]
    /\ amain' = "await_group"
    /\ running' = running \ {Step(0)}
    /\ UNCHANGED <<notAsync, now, timers, cresult, nfinished, outer, results, alog>>

\* faulty variant: the group wakes its parent when the first child is done
GroupDoneFirst(n, total) == n >= 1

\* TaskGroup._on_task_done: `not self._tasks`, no child is left unfinished
GroupDone(n, total) == n = total

\* TaskGroup._on_task_done for child t: the child is discarded from the
\* group's set, and with the last child the completion future is set, which
\* wakes the parent task
AGroupCallback(t) ==
    /\ Running(GroupCallback(t))
    /\ nfinished' = nfinished + 1
    /\ IF GroupDone(nfinished + 1, Len(cstate)) /\ amain = "await_group"
       THEN ready' = Append(ready, Step(0))
       ELSE ready' = ready
    /\ running' = running \ {GroupCallback(t)}
    /\ UNCHANGED <<notAsync, now, timers, cstate, cresult, amain, outer, results, alog>>

\* TaskGroup.__aexit__ returns: the parent task leaves the async with block
AGroupExit ==
    /\ Running(Step(0))
    /\ amain = "await_group"
    /\ amain' = "after_group"
    /\ UNCHANGED <<notAsync, now, ready, timers, cstate, cresult, nfinished, outer, results,
                   alog, running>>

\* the statements after the block: task1.result(), task2.result(),
\* task3.result(); Task.result() of a task that is not done raises
\* InvalidStateError
AGroupResults ==
    /\ Running(Step(0))
    /\ amain = "after_group"
    /\ IF \A t \in DOMAIN cstate : cstate[t] = "finished"
       THEN /\ results' = [t \in DOMAIN cstate |-> cresult[t]]
            /\ amain' = "done"
       ELSE /\ UNCHANGED results
            /\ amain' = "InvalidStateError"
    /\ running' = running \ {Step(0)}
    /\ UNCHANGED <<notAsync, now, ready, timers, cstate, cresult, nfinished, outer, alog>>

\* async with asyncio.timeout(1): the deadline is set with call_at; then
\* await long_running_task() runs the coroutine in the caller's own task:
\* the print of "started", and await asyncio.sleep(2) sets its timer
ATimeoutEnter ==
    /\ ademo = "timeout"
    /\ Running(Step(0))
    /\ amain = "start"
    /\ timers' = timers \o <<[when |-> now + delays[2], t |-> 0, kind |-> "timeout"],
                             [when |-> now + delays[1], t |-> 0, kind |-> "wakeup"]>>
    /\ alog' = Append(alog, [ev |-> "started", t |-> 0])
    /\ amain' = "long_sleeping"
    /\ running' = running \ {Step(0)}
    /\ UNCHANGED <<notAsync, now, ready, cstate, cresult, nfinished, outer, results>>

\* Timeout._on_timeout: task.cancel() cancels the sleep the task is
\* suspended in (its timer and its wake-up) and schedules a step of the task
\* that raises CancelledError there
ATimeoutFire ==
    /\ Running(TimeoutCallback(0))
    /\ amain = "long_sleeping"
    /\ ready' = Append(Cancelled(ready, Step(0)), Throw(0))
    /\ timers' = Select(timers, {i \in DOMAIN timers : timers[i].kind # "wakeup"})
    /\ running' = running \ {TimeoutCallback(0)}
    /\ UNCHANGED <<notAsync, now, cstate, cresult, amain, nfinished, outer, results, alog>>

\* CancelledError is raised at the await of the sleep and leaves
\* long_running_task; Timeout.__aexit__ turns it into TimeoutError, and the
\* caller's except TimeoutError branch prints
ATimeoutCancelled ==
    /\ Running(Throw(0))
    /\ amain = "long_sleeping"
    /\ alog' = Append(alog, [ev |-> "timed_out", t |-> 0])
    /\ amain' = "done"
    /\ running' = running \ {Throw(0)}
    /\ UNCHANGED <<notAsync, now, ready, timers, cstate, cresult, nfinished, outer, results>>

\* the sleep has ended before the deadline: long_running_task prints
\* "completed" and returns, Timeout.__aexit__ cancels the deadline's timer,
\* and the caller prints the result
ATimeoutComplete ==
    /\ Running(Step(0))
    /\ amain = "long_sleeping"
    /\ alog' = Append(alog, [ev |-> "completed", t |-> 0])
    /\ results' = <<LongTaskResult>>
    /\ timers' = Select(timers, {i \in DOMAIN timers : timers[i].kind # "timeout"})
    /\ ready' = Cancelled(ready, TimeoutCallback(0))
    /\ amain' = "done"
    /\ running' = running \ {Step(0)}
    /\ UNCHANGED <<notAsync, now, cstate, cresult, nfinished, outer>>

\* faulty variant: the newest handle is run first
CallSoonFront(hs, h) == <<h>> \o hs

\* loop.call_soon: the handle goes to the back of the ready queue
CallSoon(hs, h) == Append(hs, h)

\* task1 = asyncio.create_task(fetch_data("X", 0.7)); task2 =
\* asyncio.create_task(fetch_data("Y", 0.3)): each task's first step is
\* scheduled with call_soon, and the creating coroutine goes on
ACreateTasks ==
    /\ ademo = "create_task"
    /\ Running(Step(0))
    /\ amain = "start"
    /\ cstate' = [t \in DOMAIN cstate |-> "created"]
    /\ ready' = CallSoon(CallSoon(ready, Step(1)), Step(2))
    /\ amain' = "tasks_created"
    /\ UNCHANGED <<notAsync, now, timers, cresult, nfinished, outer, results, alog, running>>

\* print("Doing other work while tasks are running..."), and await
\* asyncio.sleep(0.1): the timer is set and the coroutine gives the loop back
AOtherWork ==
    /\ Running(Step(0))
    /\ amain = "tasks_created"
    /\ alog' = Append(alog, [ev |-> "other_work", t |-> 0])
    /\ timers' = Append(timers, [when |-> now + delays[3], t |-> 0, kind |-> "wakeup"])
    /\ amain' = "main_sleeping"
    /\ running' = running \ {Step(0)}
    /\ UNCHANGED <<notAsync, now, ready, cstate, cresult, nfinished, outer, results>>

\* after the sleep: print("Other work completed")
AOtherDone ==
    /\ Running(Step(0))
    /\ amain = "main_sleeping"
    /\ alog' = Append(alog, [ev |-> "other_done", t |-> 0])
    /\ amain' = "await_1"
    /\ UNCHANGED <<notAsync, now, ready, timers, cstate, cresult, nfinished, outer, results,
                   running>>

\* result1 = await task1, result2 = await task2: the await of a finished
\* task gives its result at once; at the await of an unfinished task the
\* coroutine is suspended until that task's done callback wakes it
AAwaitTask ==
    /\ Running(Step(0))
    /\ AwaitedTask(amain) # 0
    /\ LET t == AwaitedTask(amain)
       IN IF cstate[t] = "finished"
          THEN /\ results' = Append(results, cresult[t])
               /\ amain' = IF t = 1 THEN "await_2" ELSE "print_results"
               /\ UNCHANGED running
          ELSE /\ amain' = IF t = 1 THEN "waiting_1" ELSE "waiting_2"
               /\ running' = running \ {Step(0)}
               /\ UNCHANGED results
    /\ UNCHANGED <<notAsync, now, ready, timers, cstate, cresult, nfinished, outer, alog>>

\* print(f"Task results: {result1}, {result2}")
ATaskResults ==
    /\ Running(Step(0))
    /\ amain = "print_results"
    /\ alog' = Append(alog, [ev |-> "task_results", t |-> 0])
    /\ amain' = "done"
    /\ running' = running \ {Step(0)}
    /\ UNCHANGED <<notAsync, now, ready, timers, cstate, cresult, nfinished, outer, results>>

AsyncNext ==
    \/ ARunNext
    \/ AGather
    \/ \E t \in DOMAIN cstate : ATaskStart(t)
    \/ \E t \in DOMAIN cstate : ATaskSleep(t)
    \/ ATimer
    \/ \E t \in DOMAIN cstate : ATaskResume(t)
    \/ \E t \in DOMAIN cstate : ATaskFinish(t)
    \/ \E t \in DOMAIN cstate : AGatherCallback(t)
    \/ AGatherReturn
    \/ AGroupEnter
    \/ \E t \in DOMAIN cstate : AGroupCallback(t)
    \/ AGroupExit
    \/ AGroupResults
    \/ ATimeoutEnter
    \/ ATimeoutFire
    \/ ATimeoutCancelled
    \/ ATimeoutComplete
    \/ ACreateTasks
    \/ AOtherWork
    \/ AOtherDone
    \/ AAwaitTask
    \/ ATaskResults

AsyncSpec == AsyncInit /\ [][AsyncNext]_vars

(***************************************************************************)
(* Properties                                                              *)
(***************************************************************************)

\* the main thread has left its program
Done == pc > Len(Prog)

\* the state of a future as the specification names it
FutureState(t) ==
    CASE fstate[t] \in {"CANCELLED", "CANCELLED_AND_NOTIFIED"} -> "Cancelled"
      [] fstate[t] = "FINISHED" /\ fvalue[t].kind = "exception" -> "Failed"
      [] fstate[t] = "FINISHED" -> "Fulfilled"
      [] OTHER -> "Pending"

Submitted(t) == fstate[t] # "NONE"

\* the worker threads that are inside a task's function: (task, holder) pairs
RunningWorkers ==
    UNION {{<<t, i>> : i \in {j \in DOMAIN holders[t] : holders[t][j] = "running"}} :
           t \in Tasks}

RunningFutures == {t \in Tasks : fstate[t] = "RUNNING"}

\* C1: in a thread pool of size max_workers, at most max_workers tasks are
\* being run at any time (counted by the worker threads inside a task's
\* function, and by the futures in state RUNNING).
C1_AtMostKRunning ==
    Mode(demo) = "thread" =>
        /\ Cardinality(RunningWorkers) <= max_workers
        /\ Cardinality(RunningFutures) <= max_workers
        /\ num_threads <= max_workers

\* the exception demo with all 3 workers running a task and 2 tasks queued
C1_Witness ==
    /\ demo = "exception"
    /\ Cardinality(RunningWorkers) = max_workers
    /\ Len(queue) = ntasks - max_workers

\* C2: every submitted task's future eventually is in a terminal state and
\* stays there (from some point on, no submitted future is pending), when the
\* worker threads are scheduled fairly.
C2_EveryTaskTerminates ==
    <>[](\A t \in Tasks : Submitted(t) => FutureState(t) # "Pending")

\* more submissions than workers: the generic program with one worker and
\* MaxTasks tasks, all of them finished
C2_Witness ==
    /\ demo = "generic"
    /\ max_workers = 1
    /\ ntasks = MaxTasks
    /\ \A t \in 1..ntasks : fstate[t] = "FINISHED"

\* C3: a task's work item is held by at most one worker thread at a time, and
\* its function is started at most once.
C3_AtMostOnce ==
    \A t \in Tasks : Len(holders[t]) <= 1 /\ started[t] <= 1

\* the three tasks of the first demo are run by three workers at once
C3_Witness ==
    /\ demo = "basic"
    /\ \A t \in Tasks : holders[t] = <<"running">> /\ started[t] = 1

\* C4: a future that has left Pending keeps its state and its stored value or
\* error for ever: every step leaves a Fulfilled, Failed or Cancelled future
\* as it is (so a future makes at most one transition, and from Pending).
C4_OneWayOnce ==
    [][\A t \in Tasks :
          FutureState(t) # "Pending" =>
              /\ FutureState(t)' = FutureState(t)
              /\ fvalue'[t] = fvalue[t]]_vars

\* cancel() was attempted on a running future, which then finished
C4_Witness ==
    /\ demo = "cancel"
    /\ cancelled = "False"
    /\ FutureState(2) = "Fulfilled"

\* C5 (as claimed): when the loop over executor.map(worker, ["X", "Y", "Z"],
\* [0.7, 0.3, 0.5]) is over, it has received the results of X, Y and Z, in
\* that order, and no exception.
C5_MapYieldsInOrder ==
    (demo = "map" /\ Done) =>
        /\ raised = ""
        /\ yielded = [t \in 1..ntasks |-> [t |-> t, out |-> Result(t)]]

\* C6: in the exception demo no worker thread is ended by the exception: the
\* ValueError is stored on the future of the task with value 2 (task 3) and on
\* no other, every other future that finishes holds its result, the worker
\* threads are all idle, holding an item or (after shutdown only) exited, and
\* when the program is over all five futures are finished.
C6_ExceptionStaysInFuture ==
    demo = "exception" =>
        /\ crashed = 0
        /\ idle + exited + Cardinality(UNION {{<<t, i>> : i \in DOMAIN holders[t]} : t \in Tasks})
              = num_threads
        /\ exited > 0 => shutdown
        /\ \A t \in Tasks :
              /\ fstate[t] = "FINISHED" =>
                    fvalue[t] = IF t = 3 THEN Exception("ValueError") ELSE Result(t - 1)
              /\ Done => fstate[t] = "FINISHED"

\* The worker that ran the failing task takes a further task: tasks 1 and 2
\* are still being run by the two workers that took them before task 3 left
\* the queue, task 3 has failed, and task 4 is being run: by the third worker,
\* the one that ran task 3.
C6_Witness ==
    /\ demo = "exception"
    /\ holders[1] = <<"running">> /\ holders[2] = <<"running">>
    /\ FutureState(3) = "Failed"
    /\ holders[4] = <<"running">>

\* C7 (as claimed): when cancel() returns true the task has not been started,
\* its work item is out of the queue, it is never executed and its future is
\* Cancelled; when cancel() returns false the task has been started, runs to
\* completion and its future ends Fulfilled or Failed.
C7_CancelRemovesFromQueue ==
    demo = "cancel" =>
        /\ cancelled = "True" =>
              /\ ~InQueue(2)
              /\ started[2] = 0
              /\ FutureState(2) = "Cancelled"
        /\ cancelled = "False" =>
              /\ started[2] = 1
              /\ FutureState(2) \in {"Pending", "Fulfilled", "Failed"}
              /\ Done => FutureState(2) \in {"Fulfilled", "Failed"}

\* C7 (amended): when cancel() returns true the task has not been started, it
\* is never executed and its future is Cancelled, while its work item stays in
\* the queue until a worker takes it and drops it without running it (it is
\* out of the queue when the program is over); when cancel() returns false
\* the task has been started, runs to completion and its future ends Fulfilled
\* or Failed.
C7_CancelOnlyBeforeStart ==
    demo = "cancel" =>
        /\ cancelled = "True" =>
              /\ started[2] = 0
              /\ \A i \in DOMAIN holders[2] : holders[2][i] = "got"
              /\ FutureState(2) = "Cancelled"
              /\ Done => ~InQueue(2) /\ holders[2] = <<>>
        /\ cancelled = "False" =>
              /\ started[2] = 1
              /\ FutureState(2) \in {"Pending", "Fulfilled", "Failed"}
              /\ Done => FutureState(2) \in {"Fulfilled", "Failed"}

\* cancel() returned true while the item was queued, and a worker has since
\* taken the item and dropped it
C7_Witness ==
    /\ demo = "cancel"
    /\ cancelled = "True"
    /\ cancel_queued
    /\ fstate[2] = "CANCELLED_AND_NOTIFIED"
    /\ started[2] = 0

\* the add_done_callback call for task t's future has returned
Registered(t) ==
    \E i \in 1..(pc - 1) : i <= Len(Prog) /\ Prog[i] = Instr("add_done_callback", t, FALSE, "")

\* C8: in the callbacks demo the callback of a future runs at most once and
\* never before the future is in a terminal state, and it has run exactly once
\* as soon as the future is registered and resolved and the worker that
\* resolved it is through with its work item.
C8_CallbackExactlyOnce ==
    demo = "callbacks" =>
        /\ cb_early = {}
        /\ \A t \in Tasks :
              /\ cb_calls[t] <= 1
              /\ cb_calls[t] = 1 => FutureState(t) # "Pending"
              /\ (Registered(t) /\ FutureState(t) # "Pending" /\ holders[t] = <<>>)
                    => cb_calls[t] = 1

\* both orders at once: the callback of task 1 was registered before the
\* future was resolved and has been run by the worker, and the callback of
\* task 2 is registered after the worker resolved the future but before the
\* worker ran the callbacks, so the registering thread is about to run it
C8_Witness ==
    /\ demo = "callbacks"
    /\ done_callbacks[1] = 1 /\ cb_calls[1] = 1
    /\ mphase = "invoke" /\ Cur.t = 2
    /\ holders[2] = <<"callbacks">>

\* a shutdown(wait=True) call of the program has returned
WaitedShutdownReturned ==
    /\ shutdown_returned
    /\ \E i \in 1..(pc - 1) : i <= Len(Prog) /\ Prog[i].op = "shutdown" /\ Prog[i].wait

\* C9: when shutdown(wait=True) has returned, every task submitted before is
\* complete: its future is in a terminal state, no worker holds a work item
\* and no work item is left in the queue.
C9_ShutdownWaits ==
    WaitedShutdownReturned =>
        /\ \A t \in Tasks : Submitted(t) => FutureState(t) # "Pending" /\ holders[t] = <<>>
        /\ \A i \in DOMAIN queue : queue[i].none

\* the shutdown demo: shutdown(wait=True) has returned, the 3 sleeps are done
C9_Witness ==
    /\ demo = "shutdown_wait"
    /\ WaitedShutdownReturned
    /\ \A t \in Tasks : FutureState(t) = "Fulfilled"

\* C10: in the wait=False demo, once shutdown has returned every one of the
\* three tasks is eventually run (once) and its future fulfilled, when the
\* worker threads are scheduled fairly.
C10_NoWaitStillRuns ==
    (demo = "shutdown_nowait" /\ shutdown_returned)
        ~> (\A t \in Tasks : FutureState(t) = "Fulfilled" /\ started[t] = 1)

\* shutdown(wait=False) has returned while no task is complete and the third
\* is still in the queue
C10_Witness ==
    /\ demo = "shutdown_nowait"
    /\ shutdown_returned
    /\ \A t \in Tasks : FutureState(t) = "Pending"
    /\ InQueue(3)

\* C11: once shutdown has been called (wait true or false), a further submit
\* raises RuntimeError (the executor's shutdown error) and enqueues nothing:
\* its future is never created, no work item of it is queued, held or run.
C11_SubmitAfterShutdownFails ==
    (demo = "generic" /\ pc > ntasks + 2) =>
        /\ raised = "RuntimeError"
        /\ fstate[ntasks + 1] = "NONE"
        /\ ~InQueue(ntasks + 1)
        /\ holders[ntasks + 1] = <<>>
        /\ started[ntasks + 1] = 0

\* the submit after shutdown(wait=False) was made while earlier tasks were
\* still queued and running
C11_Witness ==
    /\ demo = "generic"
    /\ ~wait_flag
    /\ pc > ntasks + 2
    /\ raised = "RuntimeError"
    /\ \E t \in 1..ntasks : InQueue(t)
    /\ \E t \in 1..ntasks : holders[t] = <<"running">>

\* the main thread has left the synchronization demo's program
SyncDone == main_pc > Len(SyncProg)

\* the threads inside the `with lock:` block of increment_counter
InLockSection == {t \in DOMAIN tstate : tstate[t] \in {"locked", "sleep", "print", "exit"}}

\* C12: after the three threads are joined the counter is 9, and the values
\* printed are always 1, 2, ... in strictly increasing order (all of 1..9 at
\* the end): no increment is lost.
C12_NoLostIncrement ==
    sdemo = "counter" =>
        /\ \A i \in DOMAIN printed : printed[i] = i
        /\ SyncDone => counter = 9 /\ Len(printed) = 9

\* all three threads are joined: the counter is 9 and 1..9 were printed
C12_Witness ==
    /\ sdemo = "counter"
    /\ SyncDone
    /\ counter = 9
    /\ printed = <<1, 2, 3, 4, 5, 6, 7, 8, 9>>

\* C13: at most one thread is inside the `with lock:` section of
\* increment_counter, and that thread is the one holding the lock.
C13_MutualExclusion ==
    sdemo = "counter" =>
        /\ Cardinality(InLockSection) <= 1
        /\ \A t \in InLockSection : lock = t

\* a thread sleeps inside the section while the two others wait for the lock
C13_Witness ==
    /\ sdemo = "counter"
    /\ tstate[2] = "sleep"
    /\ tstate[1] = "for" /\ tstate[3] = "for"
    /\ loops[1] = 1

\* the threads that hold a permit of the semaphore: between "acquired the
\* resource" and the release that follows "releasing the resource"
PermitHolders == {t \in DOMAIN tstate : tstate[t] \in {"holding", "releasing"}}

\* C14: with Semaphore(2) and five threads, at most 2 threads hold a permit,
\* the permit count stays in 0..2 (2 minus the holders), and no acquire
\* succeeds from a state where the permit count is 0.
C14_AtMostTwoPermits ==
    /\ [](sdemo = "semaphore" =>
            /\ Cardinality(PermitHolders) <= 2
            /\ semaphore \in 0..2
            /\ semaphore = 2 - Cardinality(PermitHolders))
    /\ [][sdemo = "semaphore" =>
            \A t \in DOMAIN tstate :
                (tstate[t] = "wait" /\ tstate'[t] = "holding") => semaphore > 0]_vars

\* two threads hold the permits while the three others wait to acquire
C14_Witness ==
    /\ sdemo = "semaphore"
    /\ semaphore = 0
    /\ Cardinality(PermitHolders) = 2
    /\ Cardinality({t \in DOMAIN tstate : tstate[t] = "wait"}) = 3

\* the threads that hold a permit of the bounded semaphore
BoundedHolders == {t \in DOMAIN tstate : tstate[t] \in {"working", "release"}}

\* C15: the value of BoundedSemaphore(2) never exceeds 2, and a thread's
\* second release after its single acquire, made while no other thread holds
\* a permit, raises ValueError and leaves the value as it was.
C15_OverReleaseFails ==
    /\ [](sdemo \in {"bounded", "bounded_twice"} => bounded_semaphore \in 0..2)
    /\ [][sdemo = "bounded_twice" =>
            \A t \in DOMAIN tstate :
                (/\ tstate[t] = "release2"
                 /\ BoundedHolders = {}
                 /\ tstate'[t] # "release2")
                => (tstate'[t] = "ValueError" /\ bounded_semaphore' = bounded_semaphore)]_vars

\* the first thread's second release has failed before the other two threads
\* acquired anything
C15_Witness ==
    /\ sdemo = "bounded_twice"
    /\ tstate[1] = "ValueError"
    /\ tstate[2] = "acquiring" /\ tstate[3] = "acquiring"
    /\ bounded_semaphore = 2

\* the threads that are past barrier.wait()
PastBarrier == {t \in DOMAIN tstate : tstate[t] \in {"continuing", "done"}}

\* the arrivals that belong to a round of three that is complete
InFullRound == {arrived[i] : i \in 1..(Parties * (Len(arrived) \div Parties))}

\* C16: with Barrier(3), no worker is past barrier.wait() before its round of
\* three has arrived; once the third has arrived none of the three is held
\* back (each is past the barrier or free to leave it) and the barrier's
\* count of waiting threads is what the next round has brought: 0, or 1 for a
\* 4th waiter, which stays blocked in the new round.
C16_BarrierRounds ==
    sdemo = "barrier" =>
        /\ PastBarrier \subseteq InFullRound
        /\ \A t \in InFullRound :
              t \in PastBarrier \/ (tstate[t] = "in_barrier" /\ barrier.state = 1)
        /\ NWaiting(barrier) \in {0, Len(arrived) % Parties}
        /\ barrier.state = 0 => NWaiting(barrier) = Len(arrived) % Parties
        /\ \A i \in DOMAIN arrived :
              i > Parties * (Len(arrived) \div Parties) => tstate[arrived[i]] = "in_barrier"

\* three workers have continued and ended; a fourth waits in a new round
C16_Witness ==
    /\ sdemo = "barrier"
    /\ Len(arrived) = 4
    /\ \A i \in 1..3 : tstate[arrived[i]] = "done"
    /\ tstate[arrived[4]] = "in_barrier"
    /\ NWaiting(barrier) = 1

\* how many `with rlock:` blocks of nested_locks a thread is inside
Depth(st) ==
    CASE st \in {"outer", "after_inner"} -> 1
      [] st = "inner" -> 2
      [] OTHER -> 0

\* C17: the thread that holds the reentrant lock enters the inner `with rlock`
\* without blocking, and the lock stays with it, at the depth of its open
\* blocks, until the outer block exits: after "Released inner lock" the same
\* thread still owns it, and it is free for others only at depth 0.
C17_ReentrantUntilDepthZero ==
    sdemo = "rlock" =>
        /\ \A t \in DOMAIN tstate :
              Depth(tstate[t]) > 0 =>
                  /\ rlock.owner = t
                  /\ rlock.count = Depth(tstate[t])
                  /\ RLockAvailable(rlock, t)
        /\ rlock.owner = 0 <=> (\A t \in DOMAIN tstate : Depth(tstate[t]) = 0)
        /\ \A t \in DOMAIN tstate : tstate[t] # "RuntimeError"

\* the inner block is left and the thread still holds the lock, while a
\* second thread waits for its first acquire
C17_Witness ==
    /\ sdemo = "rlock"
    /\ Len(tstate) = 2
    /\ tstate[1] = "after_inner"
    /\ tstate[2] = "start"
    /\ rlock = [owner |-> 1, count |-> 1]

\* C18: in the condition demo, when all threads are joined consumer A's wait
\* has returned true and A has processed the data, and consumer B's wait has
\* returned false and B has returned without processing.
C18_NotifiedAndTimedOut ==
    (sdemo = "condition" /\ SyncDone) =>
        /\ wait_result[1] = "True" /\ tstate[1] = "done"
        /\ wait_result[2] = "False" /\ tstate[2] = "timed_out"

\* C19: the consumer consumes item-0 .. item-4 in the order produced, each
\* once: what it has consumed is always item-0, item-1, ... without gap or
\* repeat, and all five when it has ended.
C19_QueueFifo ==
    sdemo = "queue" =>
        /\ \A i \in DOMAIN consumed_items : consumed_items[i] = i - 1
        /\ tstate[2] = "done" => Len(consumed_items) = ItemCount

\* the producer is ahead: two items are consumed while three wait in the queue
C19_Witness ==
    /\ sdemo = "queue"
    /\ consumed_items = <<0, 1>>
    /\ q = <<Item(2), Item(3), Item(4)>>

\* C20: gather keeps its caller suspended until all listed tasks have
\* finished, and the list it returns holds their results in argument order
\* (A, B, C), whatever order they finished in.
C20_GatherInputOrder ==
    ademo = "gather" =>
        /\ (amain = "done" \/ (amain = "await_gather" /\ Step(0) \in {ready[i] : i \in DOMAIN ready}))
              => \A t \in DOMAIN cstate : cstate[t] = "finished"
        /\ amain = "done" =>
              results = <<ResultFrom("A"), ResultFrom("B"), ResultFrom("C")>>

\* the demo's delays: B has finished first, then A, then C, and the caller
\* has the results of A, B, C in that order
C20_Witness ==
    /\ ademo = "gather"
    /\ delays = DemoDelays("gather")
    /\ amain = "done"
    /\ [i \in DOMAIN FinishOrder |-> FinishOrder[i].t] = <<2, 1, 3>>
    /\ results = <<ResultFrom("A"), ResultFrom("B"), ResultFrom("C")>>

\* the tasks that are between "starting" and the await of their sleep, or
\* between their resumption and their return
MidStep == {t \in DOMAIN cstate : cstate[t] \in {"starting", "resumed"}}

\* C21: the loop executes one task at a time and another task gets control
\* only at an await: while a coroutine is between its "starting" print and
\* its await of sleep, or between its resumption and its return, every step
\* taken is that coroutine's own: no other task changes state or prints,
\* and the demo's own coroutine does not move.
C21_OneTaskAtATime ==
    [][/\ Cardinality(running) <= 1
       /\ Cardinality(running') <= 1
       /\ \A t \in MidStep :
             /\ \A u \in DOMAIN cstate \ {t} : cstate'[u] = cstate[u]
             /\ amain' = amain
             /\ alog' # alog => alog'[Len(alog')].t = t]_vars

\* a task is in the middle of a step while the step of another task is ready
\* and has to wait
C21_Witness ==
    \E t \in MidStep : \E u \in DOMAIN cstate \ {t} :
        /\ \E i \in DOMAIN ready : ready[i] = Step(u)
        /\ running = {Step(t)}

\* C22: when the TaskGroup block has been left, every child task is
\* finished: the statements after the block find task1.result(),
\* task2.result() and task3.result() available, the results of workers A, B
\* and C.
C22_GroupExitAllDone ==
    ademo = "taskgroup" =>
        /\ amain \in {"after_group", "done", "InvalidStateError"}
              => \A t \in DOMAIN cstate : cstate[t] = "finished"
        /\ amain # "InvalidStateError"
        /\ amain = "done" =>
              results = <<ResultFrom("worker A"), ResultFrom("worker B"),
                          ResultFrom("worker C")>>

\* the demo's delays: the block is left after B, A and C have finished, in
\* that order, and the three results have been read
C22_Witness ==
    /\ ademo = "taskgroup"
    /\ delays = DemoDelays("taskgroup")
    /\ amain = "done"
    /\ [i \in DOMAIN FinishOrder |-> FinishOrder[i].t] = <<2, 1, 3>>
    /\ Len(results) = 3

\* what the timeout demo has printed
Printed(ev) == \E i \in DOMAIN alog : alog[i].ev = ev

\* C23: a task whose sleep does not end before the deadline of its timeout
\* is cancelled where it is suspended, and the caller gets TimeoutError:
\* long_running_task never prints "completed" and never returns its result,
\* and the caller has taken the TimeoutError branch when it goes on.
C23_TimeoutCancels ==
    (ademo = "timeout" /\ delays[1] >= delays[2]) =>
        /\ ~Printed("completed")
        /\ results = <<>>
        /\ amain = "done" => Printed("timed_out")

\* the demo's delays (a 2 s sleep under a 1 s timeout): the caller has taken
\* the TimeoutError branch at the deadline, one second in
C23_Witness ==
    /\ ademo = "timeout"
    /\ delays = DemoDelays("timeout")
    /\ amain = "done"
    /\ Printed("started")
    /\ Printed("timed_out")
    /\ now = 10

\* C24 (as claimed): every task handed to a process-backed pool can be
\* serialized, so it reaches a worker process and its future ends with the
\* task's result, never with a serialization failure.
C24_TasksSerializable ==
    demo \in ProcessDemos =>
        \A t \in Tasks : fstate[t] = "FINISHED" => fvalue[t].kind = "result"

\* C28 (as claimed): in the demo with the initializer every submitted
\* process_with_global task returns, where it runs, the data its worker's
\* initializer stored ("shared data"), and the future of every finished
\* task holds that value.
C28_InitializerDataSeen ==
    demo = "initializer" =>
        \A t \in Tasks :
            /\ fstate[t] # "NONE" => Outcome(TaskFn(demo, t)) = Result(ModuleGlobal)
            /\ fstate[t] = "FINISHED" =>
                  (fvalue[t].kind = "result" /\ fvalue[t].val = ModuleGlobal)

\* the threads inside `with condition` and not in wait
InCondition == {t \in DOMAIN tstate : tstate[t] \in {"prepare", "notify", "test", "process"}}

\* C26 (as claimed): no two of provider, consumer A and consumer B are
\* inside `with condition` (outside wait) at the same time; consumer B's
\* wait times out, and B reports the timeout only once it has the lock
\* again, after the provider has left its `with condition` block.
C26_TimeoutAfterProviderLeft ==
    sdemo = "condition" =>
        /\ Cardinality(InCondition) <= 1
        /\ tstate[2] = "timed_out" => ~(tstate[3] \in {"prepare", "notify"})
        /\ SyncDone => (wait_result[2] = "False" /\ tstate[2] = "timed_out")

\* C27: with a regular Lock in the place of the RLock, the thread's second
\* acquire, made while it holds the lock, never returns: no thread gets into
\* the inner block or ends, once a thread holds the lock no thread can take
\* another step, and the main thread's first t.join() never returns.
C27_PlainLockDeadlocks ==
    sdemo = "plain_lock" =>
        /\ \A t \in DOMAIN tstate : ~(tstate[t] \in {"inner", "after_inner", "done"})
        /\ (\E t \in DOMAIN tstate : tstate[t] = "outer") => ~ENABLED SyncThreadNext
        /\ main_pc <= Len(tstate) + 1

\* the deadlock: the thread holds the lock and waits for it, the main thread
\* waits in t.join(), and nothing can move
C27_Witness ==
    /\ sdemo = "plain_lock"
    /\ tstate[1] = "outer"
    /\ rlock.owner = 1
    /\ SyncProg[main_pc].op = "join"
    /\ ~ENABLED SyncNext

\* C30 (as claimed): once the main thread has reported "Main thread exiting,
\* daemon will be terminated", the daemon prints no further "Daemon
\* working...": none during the Event and Timer demos that follow.
C30_DaemonStopsAtReport ==
    sdemo = "daemon" =>
        \A i, j \in DOMAIN dlog :
            (i < j /\ dlog[i] = "main_exiting") => dlog[j] # "daemon_working"

\* C29 (as claimed): the loop over the futures of the ProcessPoolExecutor
\* demo handles every task's result, each as its task completes: it never
\* waits for an unfinished future while a finished one is not handled yet,
\* and when it is over all results have been handled and nothing was raised.
C29_HandledInCompletionOrder ==
    demo = "proc_submit" =>
        /\ AtOp("result") =>
              ((\E u \in Tasks : u >= Cur.t /\ Terminal(fstate[u]))
                  => Terminal(fstate[Cur.t]))
        /\ Done => (raised = "" /\ Len(yielded) = ntasks)

\* C25 (as claimed): in the Pipe demo the receiver gets the sender's five
\* messages in the order sent, then sees the end of the stream, leaves its
\* loop and ends, and receiver_process.join() returns.
C25_ReceiverTerminates ==
    (sdemo = "pipe") ~>
        (/\ received = [i \in 1..MessageCount |-> i - 1]
         /\ tstate[2] = "done"
         /\ SyncDone)

\* every print of e2 so far comes after a print of e1
PrintedBefore(e1, e2) ==
    \A i \in DOMAIN alog : alog[i] = e2 => \E j \in 1..(i - 1) : alog[j] = e1

\* C33: tasks made by create_task start only when the creating coroutine
\* has reached its next await, and in creation order: "Doing other work"
\* is printed before "Coroutine X: starting", which is printed before
\* "Coroutine Y: starting"; and with Y's delay shorter than X's (0.3 s and
\* 0.7 s) Y finishes before X, although task1 is awaited first and the
\* results are X's, then Y's.
C33_CreatedTasksStartAtAwait ==
    ademo = "create_task" =>
        /\ \A t \in DOMAIN cstate :
              cstate[t] \notin {"none", "created"} => amain \notin {"start", "tasks_created"}
        /\ PrintedBefore([ev |-> "other_work", t |-> 0], [ev |-> "starting", t |-> 1])
        /\ PrintedBefore([ev |-> "starting", t |-> 1], [ev |-> "starting", t |-> 2])
        /\ delays[2] < delays[1] =>
              PrintedBefore([ev |-> "finished", t |-> 2], [ev |-> "finished", t |-> 1])
        /\ amain = "done" => results = <<ResultFrom("X"), ResultFrom("Y")>>

\* the demo's delays: everything the create_task demo prints, in order
C33_Witness ==
    /\ ademo = "create_task"
    /\ delays = DemoDelays("create_task")
    /\ amain = "done"
    /\ alog = <<[ev |-> "other_work", t |-> 0], [ev |-> "starting", t |-> 1],
                [ev |-> "starting", t |-> 2], [ev |-> "other_done", t |-> 0],
                [ev |-> "finished", t |-> 2], [ev |-> "finished", t |-> 1],
                [ev |-> "task_results", t |-> 0]>>
    /\ now = 7

\* C34: the "was cancelled" branch of long_running_task is never taken: a
\* task that runs finds its own thread alive at every step, so every task
\* that has started does all 10 steps and ends with its result string,
\* whether or not cancel() was called on its future meanwhile.
C34_WasCancelledUnreachable ==
    demo = "cancel" =>
        \A t \in Tasks :
            /\ \A i \in DOMAIN holders[t] :
                  holders[t][i] = "running" =>
                     LET r == LongRunningTask(t, ThreadIsAlive(holders[t][i]))
                     IN ~r.was_cancelled /\ r.steps = Steps /\ r.ret = Result(t)
            /\ started[t] > 0 => fstate[t] \in {"RUNNING", "FINISHED"}
            /\ (started[t] > 0 /\ fstate[t] = "FINISHED") => fvalue[t] = Result(t)
            /\ (started[t] > 0 /\ Done) => fstate[t] = "FINISHED"

\* cancel() was called on the future of task B while B was running (and
\* returned false), and B has since ended with its result string
C34_Witness ==
    /\ demo = "cancel"
    /\ cancelled = "False"
    /\ ~cancel_queued
    /\ started = <<1, 1, 1>>
    /\ fstate[2] = "FINISHED"
    /\ fvalue[2] = Result(2)

\* C35: when the `with ThreadPoolExecutor` block of the callbacks demo has
\* been left, the callback has been invoked for each of the five futures
\* (once), however task completion, add_done_callback and wait interleave.
C35_AllCallbacksByBlockExit ==
    (demo = "callbacks" /\ Done) =>
        /\ shutdown_returned
        /\ Len(cb_calls) = DemoTasks("callbacks")
        /\ \A t \in Tasks : cb_calls[t] = 1 /\ fstate[t] = "FINISHED"

\* the block is left; the callback of task 1 was registered before the task
\* completed and was run by a worker, the callback of task 5 was registered
\* on the completed future and was run by the registering thread
C35_Witness ==
    /\ demo = "callbacks"
    /\ Done
    /\ shutdown_returned
    /\ done_callbacks[1] = 1
    /\ done_callbacks[5] = 0
    /\ \A t \in Tasks : cb_calls[t] = 1

\* C31: the queue demo always ends: the consumer gets the None after all
\* five items (the None is put only when the producer is joined), leaves its
\* loop, and consumer_thread.join() returns, in every interleaving.
C31_ConsumerTerminates ==
    (sdemo = "queue") ~>
        (/\ sdemo = "queue"
         /\ consumed_items = [i \in 1..ItemCount |-> i - 1]
         /\ q = <<>>
         /\ tstate[2] = "done"
         /\ SyncDone)

\* the consumer has taken the None behind the five items and is joined
C31_Witness ==
    /\ sdemo = "queue"
    /\ Len(consumed_items) = ItemCount
    /\ q = <<>>
    /\ tstate = <<"done", "done">>
    /\ SyncDone

\* C32 (as claimed): data_provider and data_consumer share one data_ready
\* flag that is False at first: a consumer's test of the flag never fails; it
\* reads False before the provider's write (and the consumer waits) and True
\* after it (and the consumer goes on without waiting).
C32_SharedFlagStartsFalse ==
    sdemo = "condition" =>
        \A t \in {1, 2} :
            /\ tstate[t] # "NameError"
            /\ tstate[t] \in {"waiting", "timed_out", "process", "done"} =>
                  data_ready \in {"False", "True"}
            /\ (tstate[t] = "process" /\ wait_result[t] = "unset") =>
                  data_ready = "True"

====
